---- MODULE Spec2Model ----
(***************************************************************************)
(* Model of flyweight.hpp, final iteration: the plain store `flyweight`,   *)
(* the reference counted store `flyweight_refcounted` and the RAII wrapper *)
(* `autorelease_value`.  One behaviour follows one store object of one of  *)
(* the two classes, driven by a single thread of calls.  Every step is one *)
(* call of a public store operation, issued directly or by a guard.        *)
(***************************************************************************)
EXTENDS Integers, Sequences, FiniteSets, TLC

\* Bounds of the model.
MaxOps == 5        \* state changing store calls in one behaviour
MaxGuards == 2     \* autorelease_value objects alive at the same time

\* Keys the callers use.
Keys == {"a", "b"}
NoKey == "-"
GuardIds == 1..MaxGuards

\* long long -> size_t: a negative count converts to a value >= 2^63, which
\* is represented by the largest integer TLC can hold.
SIZE_HUGE == 2147483647

VARIABLES
    kind,           \* "plain": class flyweight, "refcounted": class flyweight_refcounted
    alive,          \* the store object has not been destroyed
    map,            \* Map map: key -> slot, slot = [id, value] or [id, value, refcount]
    creator_calls,  \* log: creator_calls[i] is the key of the i-th value the creator returned
    deleter_calls,  \* log: deleter_calls[i] is how often the deleter was given value i
    guards,         \* live autorelease_value objects: guard id -> [key, value]
    pending,        \* copy assignment between its release and its get: <<a, b>>, or <<>>
    crashed,        \* undefined behaviour ended the program
    gets,           \* per key, number of get calls that returned
    releases,       \* per key, number of release calls
    stray,          \* per key, some release call found no slot for it
    cleared,        \* per key, clear or the destructor removed its slot
    last,           \* the store call of the last step and what it returned
    nops,           \* number of state changing store calls so far
    threadsafe,     \* Mutex/Lock are std::mutex/std::lock_guard (TRUE) or the dummies (FALSE)
    mutex,          \* Mutex mutex: the thread that owns it, or NoThread
    thr,            \* per thread: the call it is in, its position and its locals
    shadow,         \* the store obtained by running the returned calls one after another
    mismatch,       \* some call returned something else than its run on `shadow`
    obs,            \* what the last is_loaded called from inside a callback saw
    hkey,           \* tuple_hasher: the key tuple being hashed
    hval,           \* tuple_hasher: the hash computed for hkey, or <<>>
    wmap,           \* flyweight_autorelease: key -> the object its weak_ptr refers to
    winst,          \* flyweight_autorelease: live autorelease objects, id -> [key, handles]
    wmade,          \* flyweight_autorelease: number of autorelease objects made so far
    wlast           \* flyweight_autorelease: the last step and what it did

tvars == <<threadsafe, mutex, thr, shadow, mismatch, obs>>
hvars == <<hkey, hval>>
wvars == <<wmap, winst, wmade, wlast>>

vars == <<kind, alive, map, creator_calls, deleter_calls, guards, pending, crashed,
          gets, releases, stray, cleared, last, nops, tvars, hvars, wvars>>

----------------------------------------------------------------------------
\* std::unordered_map
emplace(m, k, slot) ==
    IF k \in DOMAIN m THEN m
    ELSE [x \in DOMAIN m \cup {k} |-> IF x = k THEN slot ELSE m[x]]

erase(m, k) == [x \in DOMAIN m \ {k} |-> m[x]]

EmptyMap == [x \in {} |-> 0]

\* default_creator: the value is constructed from the key.
creator(key) == key

\* The store as a value: what an operation reads and writes.
Store == [map |-> map, creator_calls |-> creator_calls, deleter_calls |-> deleter_calls]

\* deleter(it->second): the deleter is given the value of slot `id`.
deleter(s, id) == [s EXCEPT !.deleter_calls[id] = @ + 1]

\* map.emplace(key, creator(key)): the creator runs first; when it throws
\* nothing is inserted.  A created value gets the next identity.
create(s, key, slot) ==
    [s EXCEPT !.creator_calls = Append(@, key),
              !.deleter_calls = Append(@, 0),
              !.map = emplace(@, key, slot)]

NextId(s) == Len(s.creator_calls) + 1

\* Faulty variant: a new refcounted_value starts with refcount -1.
refcounted_value_below_zero(id, v) == [id |-> id, value |-> v, refcount |-> -1]

\* detail::refcounted_value
refcounted_value(id, v) == [id |-> id, value |-> v, refcount |-> 0]

\* Faulty variant: reference() leaves the count alone.
reference_forgets(slot) == slot

\* refcounted_value::reference
reference(slot) == [slot EXCEPT !.refcount = @ + 1]

\* Faulty variant: dereference() reports zero while one reference remains (refcount <= 1).
dereference_early(slot) ==
    LET n == slot.refcount - 1
    IN [slot |-> [slot EXCEPT !.refcount = n], ret |-> (n <= 1)]

\* Faulty variant: dereference() reports zero only below zero (refcount < 0).
dereference_below_zero(slot) ==
    LET n == slot.refcount - 1
    IN [slot |-> [slot EXCEPT !.refcount = n], ret |-> (n < 0)]

\* refcounted_value::dereference
dereference(slot) ==
    LET n == slot.refcount - 1
    IN [slot |-> [slot EXCEPT !.refcount = n], ret |-> (n <= 0)]

to_size_t(n) == IF n >= 0 THEN n ELSE SIZE_HUGE

----------------------------------------------------------------------------
\* class flyweight.  `ok` is whether the creator returns (TRUE) or throws;
\* `ncreator` is how often the call invoked the creator.

\* Faulty variant: get inserts a default value for the key, map[key], and calls
\* the creator without storing what it returns.
get_stores_default(s, key, ok) ==
    IF key \in DOMAIN s.map
    THEN [s |-> s, ret |-> s.map[key].id, threw |-> FALSE, ncreator |-> 0]
    ELSE IF ~ok
    THEN [s |-> s, ret |-> 0, threw |-> TRUE, ncreator |-> 1]
    ELSE LET s2 == create(s, key, [id |-> NextId(s), value |-> NoKey])
         IN [s |-> s2, ret |-> s2.map[key].id, threw |-> FALSE, ncreator |-> 1]

\* Faulty variant: get without the map.find test, the creator runs on every call.
get_no_find(s, key, ok) ==
    IF ~ok
    THEN [s |-> s, ret |-> 0, threw |-> TRUE, ncreator |-> 1]
    ELSE LET s2 == create(s, key, [id |-> NextId(s), value |-> creator(key)])
         IN [s |-> s2, ret |-> s2.map[key].id, threw |-> FALSE, ncreator |-> 1]

\* flyweight::get
get(s, key, ok) ==
    IF key \in DOMAIN s.map
    THEN [s |-> s, ret |-> s.map[key].id, threw |-> FALSE, ncreator |-> 0]
    ELSE IF ~ok
    THEN [s |-> s, ret |-> 0, threw |-> TRUE, ncreator |-> 1]
    ELSE LET s2 == create(s, key, [id |-> NextId(s), value |-> creator(key)])
         IN [s |-> s2, ret |-> s2.map[key].id, threw |-> FALSE, ncreator |-> 1]

\* Faulty variant: peek returns &map[key], which inserts a slot for a key that has none.
peek_subscript(s, key) ==
    IF key \in DOMAIN s.map
    THEN [s |-> s, ret |-> s.map[key].id]
    ELSE [s |-> create(s, key, [id |-> NextId(s), value |-> NoKey]), ret |-> NextId(s)]

\* flyweight::peek: map.find only; 0 stands for nullptr.
peek(s, key) ==
    [s |-> s, ret |-> IF key \notin DOMAIN s.map THEN 0 ELSE s.map[key].id]

\* flyweight::is_loaded
is_loaded(s, key) == [s |-> s, ret |-> key \in DOMAIN s.map]

\* Faulty variant: release erases the slot without calling the deleter.
release_no_deleter(s, key) ==
    IF key \in DOMAIN s.map
    THEN [s |-> [s EXCEPT !.map = erase(@, key)], ret |-> TRUE]
    ELSE [s |-> s, ret |-> FALSE]

\* Faulty variant: release calls the deleter and forgets map.erase.
release_keeps_slot(s, key) ==
    IF key \in DOMAIN s.map
    THEN [s |-> deleter(s, s.map[key].id), ret |-> TRUE]
    ELSE [s |-> s, ret |-> FALSE]

\* flyweight::release
release(s, key) ==
    IF key \in DOMAIN s.map
    THEN [s |-> [deleter(s, s.map[key].id) EXCEPT !.map = erase(@, key)], ret |-> TRUE]
    ELSE [s |-> s, ret |-> FALSE]

\* for (auto it : map) deleter(it.second): one call for each slot (`auto it`
\* copies the pair, the deleter is handed the copy of the slot's value).
delete_all(s) ==
    [s EXCEPT !.deleter_calls =
        [i \in DOMAIN @ |-> IF \E k \in DOMAIN s.map : s.map[k].id = i THEN @[i] + 1 ELSE @[i]]]

\* Faulty variant: clear empties the map without the deleter loop.
clear_no_deleter(s) == [s EXCEPT !.map = EmptyMap]

\* flyweight::clear
clear(s) == [delete_all(s) EXCEPT !.map = EmptyMap]

\* Faulty variant: no destructor is declared, the map dies without the deleter loop.
destroy_no_deleter(s) == [s EXCEPT !.map = EmptyMap]

\* ~flyweight: the deleter on every remaining value; the map dies with the store.
destroy(s) == [delete_all(s) EXCEPT !.map = EmptyMap]

----------------------------------------------------------------------------
\* class flyweight_refcounted

\* Faulty variant: get assigns map[key] = creator(key) on every call, replacing a
\* loaded slot by a new one.
rc_get_overwrites(s, key, ok) ==
    IF ~ok
    THEN [s |-> s, ret |-> 0, threw |-> TRUE, ncreator |-> 1]
    ELSE LET old == IF key \in DOMAIN s.map THEN s.map[key].refcount ELSE 0
             s1 == [s EXCEPT !.map = erase(@, key)]
             s2 == create(s1, key, [refcounted_value(NextId(s), creator(key)) EXCEPT !.refcount = old])
         IN [s |-> [s2 EXCEPT !.map[key] = reference(@)], ret |-> s2.map[key].id, threw |-> FALSE,
             ncreator |-> 1]

\* Faulty variant: get without the map.find test, the creator runs on every call.
rc_get_no_find(s, key, ok) ==
    IF ~ok
    THEN [s |-> s, ret |-> 0, threw |-> TRUE, ncreator |-> 1]
    ELSE LET s2 == create(s, key, refcounted_value(NextId(s), creator(key)))
         IN [s |-> [s2 EXCEPT !.map[key] = reference(@)], ret |-> s2.map[key].id, threw |-> FALSE,
             ncreator |-> 1]

\* Faulty variant: get inserts the slot before it runs the creator (map[key] =
\* creator(key)), so a creator that throws leaves a default slot behind.
rc_get_inserts_first(s, key, ok) ==
    IF key \in DOMAIN s.map
    THEN [s |-> [s EXCEPT !.map[key] = reference(@)], ret |-> s.map[key].id, threw |-> FALSE,
          ncreator |-> 0]
    ELSE IF ~ok
    THEN [s |-> create(s, key, refcounted_value(NextId(s), NoKey)), ret |-> 0, threw |-> TRUE,
          ncreator |-> 1]
    ELSE LET s2 == create(s, key, refcounted_value(NextId(s), creator(key)))
         IN [s |-> [s2 EXCEPT !.map[key] = reference(@)], ret |-> s2.map[key].id, threw |-> FALSE,
             ncreator |-> 1]

\* flyweight_refcounted::get
rc_get(s, key, ok) ==
    IF key \in DOMAIN s.map
    THEN [s |-> [s EXCEPT !.map[key] = reference(@)], ret |-> s.map[key].id, threw |-> FALSE,
          ncreator |-> 0]
    ELSE IF ~ok
    THEN [s |-> s, ret |-> 0, threw |-> TRUE, ncreator |-> 1]
    ELSE LET s2 == create(s, key, refcounted_value(NextId(s), creator(key)))
         IN [s |-> [s2 EXCEPT !.map[key] = reference(@)], ret |-> s2.map[key].id, threw |-> FALSE,
             ncreator |-> 1]

\* Faulty variant: peek returns &map[key], which inserts a default slot for a key
\* that has none.
rc_peek_subscript(s, key) ==
    IF key \in DOMAIN s.map
    THEN [s |-> s, ret |-> s.map[key].id]
    ELSE [s |-> create(s, key, refcounted_value(NextId(s), NoKey)), ret |-> NextId(s)]

\* flyweight_refcounted::peek
rc_peek(s, key) ==
    [s |-> s, ret |-> IF key \notin DOMAIN s.map THEN 0 ELSE s.map[key].id]

\* flyweight_refcounted::is_loaded
rc_is_loaded(s, key) == [s |-> s, ret |-> key \in DOMAIN s.map]

\* flyweight_refcounted::reference_count
reference_count(s, key) ==
    [s |-> s, ret |-> IF key \in DOMAIN s.map THEN to_size_t(s.map[key].refcount) ELSE 0]

\* Faulty variant: release calls the deleter at zero and forgets map.erase.
rc_release_keeps_slot(s, key) ==
    IF key \in DOMAIN s.map
    THEN LET d == dereference(s.map[key])
             s1 == [s EXCEPT !.map[key] = d.slot]
         IN IF d.ret
            THEN [s |-> deleter(s1, s1.map[key].id), ret |-> TRUE]
            ELSE [s |-> s1, ret |-> FALSE]
    ELSE [s |-> s, ret |-> FALSE]

\* Faulty variant: release decrements a copy of the slot, the stored count stays.
rc_release_on_copy(s, key) ==
    IF key \in DOMAIN s.map
    THEN LET d == dereference(s.map[key])
         IN IF d.ret
            THEN [s |-> [deleter(s, s.map[key].id) EXCEPT !.map = erase(@, key)], ret |-> TRUE]
            ELSE [s |-> s, ret |-> FALSE]
    ELSE [s |-> s, ret |-> FALSE]

\* Faulty variant: release looks the key up with map[key], which inserts a slot for
\* a key that has none and decrements it to -1.
rc_release_subscript(s, key) ==
    IF key \in DOMAIN s.map
    THEN LET d == dereference(s.map[key])
             s1 == [s EXCEPT !.map[key] = d.slot]
         IN IF d.ret
            THEN [s |-> [deleter(s1, s1.map[key].id) EXCEPT !.map = erase(@, key)], ret |-> TRUE]
            ELSE [s |-> s1, ret |-> FALSE]
    ELSE [s |-> create(s, key, [refcounted_value(NextId(s), creator(key)) EXCEPT !.refcount = -1]),
          ret |-> FALSE]

\* flyweight_refcounted::release
\* it != map.end() && it->second.dereference(): the count is decremented
\* in place also when the slot stays.
rc_release(s, key) ==
    IF key \in DOMAIN s.map
    THEN LET d == dereference(s.map[key])
             s1 == [s EXCEPT !.map[key] = d.slot]
         IN IF d.ret
            THEN [s |-> [deleter(s1, s1.map[key].id) EXCEPT !.map = erase(@, key)], ret |-> TRUE]
            ELSE [s |-> s1, ret |-> FALSE]
    ELSE [s |-> s, ret |-> FALSE]

\* Faulty variant: clear spares the slots that still have references.
rc_clear_respects_counts(s) ==
    LET gone == {k \in DOMAIN s.map : s.map[k].refcount <= 0}
    IN [s EXCEPT !.deleter_calls =
                    [i \in DOMAIN @ |->
                        IF \E k \in gone : s.map[k].id = i THEN @[i] + 1 ELSE @[i]],
                 !.map = [k \in DOMAIN s.map \ gone |-> s.map[k]]]

\* flyweight_refcounted::clear
rc_clear(s) == [delete_all(s) EXCEPT !.map = EmptyMap]

rc_destroy(s) == [delete_all(s) EXCEPT !.map = EmptyMap]

----------------------------------------------------------------------------
\* The template parameter Flyweight of autorelease_value: the calls a guard
\* makes go to the class of its owning store.
\* Faulty variant: the guard's get on a refcounted store finds or creates the slot
\* and does not call reference().
fw_get_unreferenced(s, key, ok) ==
    IF kind = "plain" THEN get(s, key, ok)
    ELSE IF key \in DOMAIN s.map
    THEN [s |-> s, ret |-> s.map[key].id, threw |-> FALSE, ncreator |-> 0]
    ELSE IF ~ok
    THEN [s |-> s, ret |-> 0, threw |-> TRUE, ncreator |-> 1]
    ELSE LET s2 == create(s, key, refcounted_value(NextId(s), creator(key)))
         IN [s |-> s2, ret |-> s2.map[key].id, threw |-> FALSE, ncreator |-> 1]

fw_get(s, key, ok) == IF kind = "plain" THEN get(s, key, ok) ELSE rc_get(s, key, ok)

fw_release(s, key) == IF kind = "plain" THEN release(s, key) ELSE rc_release(s, key)

----------------------------------------------------------------------------
\* The threads that call the store in the threaded runs.
Threads == {"t1", "t2"}
NoThread == "-"

\* A thread outside every call.
Idle == [pc |-> "idle", op |-> "-", key |-> NoKey, it |-> 0, val |-> 0, seen |-> 0,
         todo |-> {}, cur |-> 0, ret |-> 0, threw |-> FALSE, assign |-> <<>>,
         nested |-> "-"]

EmptyStore == [map |-> EmptyMap, creator_calls |-> <<>>, deleter_calls |-> <<>>]

NoObs == [key |-> NoKey, loaded |-> FALSE, deleted |-> FALSE]

\* No thread is in a call.
NoThreads ==
    /\ mutex = NoThread
    /\ thr = [t \in Threads |-> Idle]
    /\ shadow = EmptyStore
    /\ mismatch = FALSE
    /\ obs = NoObs

\* No tuple is being hashed.
NoHash == hkey = <<>> /\ hval = <<>>
NoWeakLast == [op |-> "init", key |-> NoKey, inst |-> 0, erased_other |-> FALSE]
NoWeak == wmap = EmptyMap /\ winst = EmptyMap /\ wmade = 0 /\ wlast = NoWeakLast

\* A store after construction, no call made yet.
InitStore ==
    /\ kind \in {"plain", "refcounted"}
    /\ alive = TRUE
    /\ map = EmptyMap
    /\ creator_calls = <<>>
    /\ deleter_calls = <<>>
    /\ guards = [g \in {} |-> 0]
    /\ pending = <<>>
    /\ crashed = FALSE
    /\ gets = [k \in Keys |-> 0]
    /\ releases = [k \in Keys |-> 0]
    /\ stray = [k \in Keys |-> FALSE]
    /\ cleared = [k \in Keys |-> FALSE]
    /\ last = [op |-> "init", key |-> NoKey, via |-> "init", ret |-> 0, threw |-> FALSE,
               ncreator |-> 0, was_loaded |-> FALSE, was_count |-> 0]
    /\ nops = 0

\* One store used by one thread of calls, with the default dummy mutex.
Init == InitStore /\ threadsafe = FALSE /\ NoThreads /\ NoHash /\ NoWeak

\* The record of a call: what was called, by whom, what it returned, how
\* often it invoked the creator, and what the key's slot was before it.
Call(op, key, via, ret, threw, n) ==
    [op |-> op, key |-> key, via |-> via, ret |-> ret, threw |-> threw, ncreator |-> n,
     was_loaded |-> key \in DOMAIN map,
     was_count |-> IF key \in DOMAIN map /\ kind = "refcounted" THEN map[key].refcount ELSE 0]

\* The store after a call.
Commit(s) ==
    /\ map' = s.map
    /\ creator_calls' = s.creator_calls
    /\ deleter_calls' = s.deleter_calls

\* Bookkeeping of a get call that went through the store.
NoteGet(key, r, via) ==
    /\ Commit(r.s)
    /\ gets' = IF r.threw THEN gets ELSE [gets EXCEPT ![key] = @ + 1]
    /\ last' = Call("get", key, via, r.ret, r.threw, r.ncreator)
    /\ nops' = nops + 1
    /\ UNCHANGED <<kind, alive, releases, stray, cleared, tvars, hvars, wvars>>

\* Bookkeeping of a release call that went through the store.
NoteRelease(key, r, via) ==
    /\ Commit(r.s)
    /\ releases' = [releases EXCEPT ![key] = @ + 1]
    /\ stray' = IF key \in DOMAIN map THEN stray ELSE [stray EXCEPT ![key] = TRUE]
    /\ last' = Call("release", key, via, r.ret, FALSE, 0)
    /\ nops' = nops + 1
    /\ UNCHANGED <<kind, alive, gets, cleared, tvars, hvars, wvars>>

\* Bookkeeping of a call of peek, is_loaded or reference_count.
NoteRead(op, key, r) ==
    /\ Commit(r.s)
    /\ last' = Call(op, key, "direct", r.ret, FALSE, 0)
    /\ UNCHANGED <<kind, alive, guards, pending, crashed, gets, releases, stray, cleared, nops, tvars, hvars, wvars>>

Ready == alive /\ ~crashed /\ pending = <<>>
CanCall == Ready /\ nops < MaxOps

\* flyweight::get
Get(key) ==
    /\ CanCall /\ kind = "plain"
    /\ \E ok \in BOOLEAN :
        /\ ok \/ key \notin DOMAIN map
        /\ NoteGet(key, get(Store, key, ok), "direct")
    /\ UNCHANGED <<guards, pending, crashed>>

\* flyweight::release
Release(key) ==
    /\ CanCall /\ kind = "plain"
    /\ NoteRelease(key, release(Store, key), "direct")
    /\ UNCHANGED <<guards, pending, crashed>>

\* flyweight::peek
Peek(key) ==
    /\ Ready /\ kind = "plain"
    /\ NoteRead("peek", key, peek(Store, key))

\* flyweight::is_loaded
IsLoaded(key) ==
    /\ Ready /\ kind = "plain"
    /\ NoteRead("is_loaded", key, is_loaded(Store, key))

\* flyweight::clear
Clear ==
    /\ CanCall /\ kind = "plain"
    /\ Commit(clear(Store))
    /\ cleared' = [k \in Keys |-> cleared[k] \/ k \in DOMAIN map]
    /\ last' = Call("clear", NoKey, "direct", 0, FALSE, 0)
    /\ nops' = nops + 1
    /\ UNCHANGED <<kind, alive, guards, pending, crashed, gets, releases, stray, tvars, hvars, wvars>>

\* flyweight::~flyweight.  No call is made on a destroyed store.
Destroy ==
    /\ CanCall /\ kind = "plain"
    /\ Commit(destroy(Store))
    /\ alive' = FALSE
    /\ cleared' = [k \in Keys |-> cleared[k] \/ k \in DOMAIN map]
    /\ last' = Call("destroy", NoKey, "direct", 0, FALSE, 0)
    /\ nops' = nops + 1
    /\ UNCHANGED <<kind, guards, pending, crashed, gets, releases, stray, tvars, hvars, wvars>>

\* flyweight_refcounted::get
RcGet(key) ==
    /\ CanCall /\ kind = "refcounted"
    /\ \E ok \in BOOLEAN :
        /\ ok \/ key \notin DOMAIN map
        /\ NoteGet(key, rc_get(Store, key, ok), "direct")
    /\ UNCHANGED <<guards, pending, crashed>>

\* flyweight_refcounted::release
RcRelease(key) ==
    /\ CanCall /\ kind = "refcounted"
    /\ NoteRelease(key, rc_release(Store, key), "direct")
    /\ UNCHANGED <<guards, pending, crashed>>

\* flyweight_refcounted::peek
RcPeek(key) ==
    /\ Ready /\ kind = "refcounted"
    /\ NoteRead("peek", key, rc_peek(Store, key))

\* flyweight_refcounted::is_loaded
RcIsLoaded(key) ==
    /\ Ready /\ kind = "refcounted"
    /\ NoteRead("is_loaded", key, rc_is_loaded(Store, key))

\* flyweight_refcounted::reference_count
ReferenceCount(key) ==
    /\ Ready /\ kind = "refcounted"
    /\ NoteRead("reference_count", key, reference_count(Store, key))

\* flyweight_refcounted::clear
RcClear ==
    /\ CanCall /\ kind = "refcounted"
    /\ Commit(rc_clear(Store))
    /\ cleared' = [k \in Keys |-> cleared[k] \/ k \in DOMAIN map]
    /\ last' = Call("clear", NoKey, "direct", 0, FALSE, 0)
    /\ nops' = nops + 1
    /\ UNCHANGED <<kind, alive, guards, pending, crashed, gets, releases, stray, tvars, hvars, wvars>>

\* flyweight_refcounted::~flyweight_refcounted
RcDestroy ==
    /\ CanCall /\ kind = "refcounted"
    /\ Commit(rc_destroy(Store))
    /\ alive' = FALSE
    /\ cleared' = [k \in Keys |-> cleared[k] \/ k \in DOMAIN map]
    /\ last' = Call("destroy", NoKey, "direct", 0, FALSE, 0)
    /\ nops' = nops + 1
    /\ UNCHANGED <<kind, guards, pending, crashed, gets, releases, stray, tvars, hvars, wvars>>

----------------------------------------------------------------------------
\* struct autorelease_value
FreeGuards == GuardIds \ DOMAIN guards

NewGuard == CHOOSE g \in FreeGuards : \A h \in FreeGuards : g <= h

AddGuard(gs, g, key, value) ==
    [x \in DOMAIN gs \cup {g} |-> IF x = g THEN [key |-> key, value |-> value] ELSE gs[x]]

\* autorelease_value(Flyweight&, const Key&): value(flyweight.get(key)).
\* When get throws no guard exists.
autorelease_value(key, via) ==
    /\ CanCall /\ FreeGuards # {}
    /\ \E ok \in BOOLEAN :
        /\ ok \/ key \notin DOMAIN map
        /\ LET r == fw_get(Store, key, ok)
           IN /\ NoteGet(key, r, via)
              /\ guards' = IF r.threw THEN guards ELSE AddGuard(guards, NewGuard, key, r.ret)
    /\ UNCHANGED <<pending, crashed>>

\* Faulty variant: get_autorelease calls get itself and hands the value to a guard
\* whose constructor calls get once more.
GetAutorelease_gets_twice(key) ==
    /\ CanCall /\ FreeGuards # {}
    /\ LET r1 == fw_get(Store, key, TRUE)
           r == fw_get(r1.s, key, TRUE)
       IN /\ NoteGet(key, [r EXCEPT !.ncreator = r1.ncreator], "get_autorelease")
          /\ guards' = AddGuard(guards, NewGuard, key, r.ret)
    /\ UNCHANGED <<pending, crashed>>

\* flyweight::get_autorelease and flyweight_refcounted::get_autorelease
GetAutorelease(key) == autorelease_value(key, "get_autorelease")

\* Faulty variant: the copy duplicates key and reference without a get on the store.
GuardCopy_aliases(g) ==
    /\ CanCall /\ FreeGuards # {}
    /\ g \in DOMAIN guards
    /\ guards' = AddGuard(guards, NewGuard, guards[g].key, guards[g].value)
    /\ last' = Call("get", guards[g].key, "guard_copy", guards[g].value, FALSE, 0)
    /\ nops' = nops + 1
    /\ UNCHANGED <<kind, alive, map, creator_calls, deleter_calls, pending, crashed,
                   gets, releases, stray, cleared, tvars, hvars, wvars>>

\* autorelease_value(const autorelease_value& other)
GuardCopy(g) ==
    /\ g \in DOMAIN guards
    /\ autorelease_value(guards[g].key, "guard_copy")

\* autorelease_value b(std::move(a)): the struct declares a copy constructor,
\* a copy assignment and a destructor and no move constructor, so none is
\* generated and the rvalue binds to the copy constructor.  The guard moved
\* from stays alive until its own destructor runs.
GuardMove(g) ==
    /\ g \in DOMAIN guards
    /\ autorelease_value(guards[g].key, "guard_move")

\* Faulty variant: the destructor lets the guard go without calling release.
GuardDestroy_no_release(g) ==
    /\ CanCall /\ g \in DOMAIN guards
    /\ guards' = [x \in DOMAIN guards \ {g} |-> guards[x]]
    /\ UNCHANGED <<kind, alive, map, creator_calls, deleter_calls, pending, crashed,
                   gets, releases, stray, cleared, last, nops, tvars, hvars, wvars>>

\* Faulty variant: the destructor releases only the slot its own get returned.
GuardDestroy_by_incarnation(g) ==
    /\ CanCall /\ g \in DOMAIN guards
    /\ LET key == guards[g].key
           mine == key \in DOMAIN map /\ map[key].id = guards[g].value
       IN NoteRelease(key, IF mine THEN fw_release(Store, key) ELSE [s |-> Store, ret |-> FALSE],
                      "guard_dtor")
    /\ guards' = [x \in DOMAIN guards \ {g} |-> guards[x]]
    /\ UNCHANGED <<pending, crashed>>

\* ~autorelease_value: flyweight.release(key)
GuardDestroy(g) ==
    /\ CanCall /\ g \in DOMAIN guards
    /\ NoteRelease(guards[g].key, fw_release(Store, guards[g].key), "guard_dtor")
    /\ guards' = [x \in DOMAIN guards \ {g} |-> guards[x]]
    /\ UNCHANGED <<pending, crashed>>

\* Faulty variant: the assignment goes to its get without releasing first.
GuardAssignRelease_no_release(a, b) ==
    /\ Ready /\ nops + 1 < MaxOps
    /\ a \in DOMAIN guards /\ b \in DOMAIN guards
    /\ NoteRelease(guards[a].key, [s |-> Store, ret |-> FALSE], "guard_assign")
    /\ pending' = <<a, b>>
    /\ UNCHANGED <<guards, crashed>>

\* operator=, first statement: flyweight.release(key)
GuardAssignRelease(a, b) ==
    /\ Ready /\ nops + 1 < MaxOps
    /\ a \in DOMAIN guards /\ b \in DOMAIN guards
    /\ NoteRelease(guards[a].key, fw_release(Store, guards[a].key), "guard_assign")
    /\ pending' = <<a, b>>
    /\ UNCHANGED <<guards, crashed>>

\* The slot the reference `value` of a guard designates, if it is in the map.
SlotOf(m, id) == {k \in DOMAIN m : m[k].id = id}

\* operator=, the rest: value = other.flyweight.get(other.key) assigns
\* through the reference (a reference is never reseated), flyweight =
\* other.flyweight assigns the store to itself, key = other.key.  When the
\* referenced slot was erased by the release the reference dangles: the
\* freed node may or may not be the one the new slot was built in.  The
\* function then flows off its end without a return statement, which is
\* undefined: the call returns to its caller, or the program ends there.
GuardAssignGet ==
    /\ alive /\ ~crashed /\ pending # <<>>
    /\ LET a == pending[1]
           b == pending[2]
           key == guards[b].key
           old == guards[a].value
       IN \E ok \in BOOLEAN :
           /\ ok \/ key \notin DOMAIN map
           /\ LET r == fw_get(Store, key, ok)
                  m == r.s.map
                  target == SlotOf(m, old)
                  reused == IF target = {} /\ Len(r.s.creator_calls) > Len(creator_calls)
                            THEN {old, r.ret} ELSE {old}
                  written == [x \in DOMAIN m |->
                                 IF x \in target THEN [m[x] EXCEPT !.value = m[key].value]
                                 ELSE m[x]]
              IN IF r.threw
                 THEN /\ NoteGet(key, r, "guard_assign")
                      /\ UNCHANGED <<guards, crashed>>
                 ELSE /\ NoteGet(key, [r EXCEPT !.s.map = written], "guard_assign")
                      /\ \E v \in reused :
                            guards' = [guards EXCEPT ![a] = [key |-> key, value |-> v]]
                      /\ crashed' \in BOOLEAN
    /\ pending' = <<>>

Next ==
    \/ \E k \in Keys : Get(k)
    \/ \E k \in Keys : Release(k)
    \/ \E k \in Keys : Peek(k)
    \/ \E k \in Keys : IsLoaded(k)
    \/ Clear
    \/ Destroy
    \/ \E k \in Keys : RcGet(k)
    \/ \E k \in Keys : RcRelease(k)
    \/ \E k \in Keys : RcPeek(k)
    \/ \E k \in Keys : RcIsLoaded(k)
    \/ \E k \in Keys : ReferenceCount(k)
    \/ RcClear
    \/ RcDestroy
    \/ \E k \in Keys : GetAutorelease(k)
    \/ \E g \in GuardIds : GuardCopy(g)
    \/ \E g \in GuardIds : GuardMove(g)
    \/ \E g \in GuardIds : GuardDestroy(g)
    \/ \E a, b \in GuardIds : GuardAssignRelease(a, b)
    \/ GuardAssignGet

Spec == Init /\ [][Next]_vars

----------------------------------------------------------------------------
\* Observations used by the properties.
Loaded(k) == k \in DOMAIN map

\* reference_count(k) as a caller of the refcounted store reads it.
RefCount(k) == reference_count(Store, k).ret

\* The values the creator returned for key k, by identity.
CreatedFor(k) == {i \in DOMAIN creator_calls : creator_calls[i] = k}

\* Those of them the deleter has been given.
DeletedFor(k) == {i \in CreatedFor(k) : deleter_calls[i] > 0}

\* Created and not yet given to the deleter.
LiveValues(k) == CreatedFor(k) \ DeletedFor(k)

\* The step is a get of key k that returned a reference.
GetStep(k) == last'.op = "get" /\ last'.key = k /\ ~last'.threw

\* The step is a release of key k.
ReleaseStep(k) == last'.op = "release" /\ last'.key = k

StoreUnchanged == UNCHANGED <<map, creator_calls, deleter_calls>>

\* Every slot but the one of key k is as it was.
OthersUnchanged(k) ==
    /\ DOMAIN map' \ {k} = DOMAIN map \ {k}
    /\ \A x \in DOMAIN map \ {k} : map'[x] = map[x]

----------------------------------------------------------------------------
\* C1: in both stores, whatever calls were made, every key has at most one
\* value that was created and not yet given to the deleter, and a get(k)
\* on a loaded key returns that one instance.
C1_AtMostOneLiveInstance ==
    /\ [](\A k \in Keys : Cardinality(LiveValues(k)) <= 1)
    /\ [][\A k \in Keys : (Loaded(k) /\ GetStep(k)) =>
            /\ LiveValues(k) = {map[k].id}
            /\ last'.ret = map[k].id
            /\ LiveValues(k)' = {last'.ret}]_vars

C1_Witness ==
    /\ last.op = "get" /\ last.key = "a" /\ ~last.threw
    /\ gets["a"] >= 3
    /\ LiveValues("a") = {last.ret}
    /\ DeletedFor("a") # {}

\* C2: a get(k) on a loaded key returns the slot that is in the map (the
\* one the get that loaded k returned), keeps that slot in place and
\* creates no value.
C2_IdempotentLookup ==
    [][\A k \in Keys : (Loaded(k) /\ GetStep(k)) =>
            /\ last'.ret = map[k].id
            /\ Loaded(k)' /\ map'[k].id = map[k].id
            /\ creator_calls' = creator_calls]_vars

C2_Witness ==
    /\ last.op = "get" /\ last.key = "a" /\ ~last.threw
    /\ gets["a"] = 3 /\ releases["a"] = 0
    /\ creator_calls = <<"a">>
    /\ last.ret = 1 /\ map["a"].id = 1

\* C3: for every key, the creator has returned exactly one value since
\* the key was last unloaded when the key is loaded, and none when it is
\* not, however many get calls were made.
C3_CreateOnce ==
    \A k \in Keys :
        Cardinality(CreatedFor(k)) =
            Cardinality(DeletedFor(k)) + (IF Loaded(k) THEN 1 ELSE 0)

C3_Witness ==
    /\ Loaded("a") /\ gets["a"] >= 3
    /\ \E g \in DOMAIN guards : guards[g].key = "a"
    /\ Cardinality(CreatedFor("a")) = 2
    /\ Cardinality(DeletedFor("a")) = 1

\* C4: once every value created for k has been given to the deleter, a
\* get(k) that returns runs the creator once more and inserts and returns
\* a new slot, never one of the released values.
C4_ReleaseThenReload ==
    [][\A k \in Keys :
        (CreatedFor(k) # {} /\ LiveValues(k) = {} /\ GetStep(k)) =>
            /\ Len(creator_calls') = Len(creator_calls) + 1
            /\ creator_calls'[Len(creator_calls')] = k
            /\ last'.ret \notin CreatedFor(k)
            /\ Loaded(k)' /\ map'[k].id = last'.ret
            /\ deleter_calls'[last'.ret] = 0]_vars

C4_Witness ==
    /\ last.op = "get" /\ last.key = "a" /\ ~last.threw
    /\ creator_calls = <<"a", "a">>
    /\ deleter_calls = <<1, 0>>
    /\ releases["a"] = 1
    /\ last.ret = 2 /\ map["a"].id = 2

\* C5: on the plain store a release(k) of a loaded key calls the deleter
\* on k's value, removes the slot and returns true, so that is_loaded(k) is
\* false; a release(k) of a key that is not loaded changes nothing and
\* returns false.
C5_PlainRelease ==
    [][\A k \in Keys : (kind = "plain" /\ ReleaseStep(k)) =>
        IF Loaded(k)
        THEN /\ last'.ret = TRUE
             /\ deleter_calls' = [deleter_calls EXCEPT ![map[k].id] = @ + 1]
             /\ ~is_loaded(Store, k).ret'
             /\ OthersUnchanged(k)
             /\ creator_calls' = creator_calls
        ELSE /\ last'.ret = FALSE
             /\ StoreUnchanged]_vars

C5_Witness ==
    /\ kind = "plain"
    /\ last.op = "release" /\ last.key = "a" /\ last.ret = FALSE
    /\ gets["a"] = 1 /\ releases["a"] = 2
    /\ deleter_calls = <<1>>
    /\ ~Loaded("a")

\* C6: on the refcounted store every get(k) that returns leaves
\* reference_count(k) one above its value before the call (0 when k was
\* not loaded).
C6_GetIncrements ==
    [][\A k \in Keys : (kind = "refcounted" /\ GetStep(k)) =>
            /\ (~Loaded(k) => RefCount(k) = 0)
            /\ RefCount(k)' = RefCount(k) + 1]_vars

C6_Witness ==
    /\ kind = "refcounted"
    /\ last.op = "get" /\ last.key = "a" /\ ~last.threw
    /\ gets["a"] = 2 /\ releases["a"] = 0
    /\ RefCount("a") = 2

\* C7: on the refcounted store a release(k) of a loaded key decrements the
\* count by one; when the result is <= 0 it calls the deleter, removes the
\* slot and returns true, otherwise the slot stays with the decremented
\* count and it returns false.
C7_RefcountedRelease ==
    [][\A k \in Keys : (kind = "refcounted" /\ ReleaseStep(k) /\ Loaded(k)) =>
        LET n == map[k].refcount - 1
        IN /\ OthersUnchanged(k)
           /\ creator_calls' = creator_calls
           /\ IF n <= 0
              THEN /\ last'.ret = TRUE
                   /\ ~Loaded(k)'
                   /\ RefCount(k)' = 0
                   /\ deleter_calls' = [deleter_calls EXCEPT ![map[k].id] = @ + 1]
              ELSE /\ last'.ret = FALSE
                   /\ Loaded(k)'
                   /\ map'[k] = [map[k] EXCEPT !.refcount = n]
                   /\ RefCount(k)' = n
                   /\ deleter_calls' = deleter_calls]_vars

C7_Witness ==
    /\ kind = "refcounted"
    /\ last.op = "release" /\ last.key = "a" /\ last.ret = TRUE
    /\ gets["a"] = 2 /\ releases["a"] = 2
    /\ ~stray["a"] /\ ~cleared["a"]
    /\ RefCount("a") = 0 /\ ~Loaded("a")
    /\ deleter_calls = <<1>>

\* C8 as stated: on the refcounted store, with n get(k) calls and
\* m <= n release(k) calls, reference_count(k) = n - m, k is loaded while
\* n - m > 0, and with m = n the key is unloaded with count 0.  (Stated
\* for the stores on which only get and release removed or added slots.)
C8_AsStated ==
    (kind = "refcounted" /\ alive) =>
        \A k \in Keys : (~cleared[k] /\ releases[k] <= gets[k]) =>
            /\ RefCount(k) = gets[k] - releases[k]
            /\ (gets[k] - releases[k] > 0 => Loaded(k))
            /\ (gets[k] = releases[k] => ~Loaded(k))

\* C8 amended: the same, for a key k none of whose release(k) calls found
\* k unloaded and whose slot was not removed by clear, n counting the get(k)
\* calls that returned.
C8_BalancedUse ==
    (kind = "refcounted" /\ alive) =>
        \A k \in Keys : (~stray[k] /\ ~cleared[k] /\ releases[k] <= gets[k]) =>
            /\ RefCount(k) = gets[k] - releases[k]
            /\ (gets[k] - releases[k] > 0 => Loaded(k))
            /\ (gets[k] = releases[k] => ~Loaded(k) /\ RefCount(k) = 0)

C8_Witness ==
    /\ kind = "refcounted" /\ alive
    /\ ~stray["a"] /\ ~cleared["a"]
    /\ gets["a"] = 3 /\ releases["a"] = 2
    /\ RefCount("a") = 1 /\ Loaded("a")

\* C9: on the refcounted store, for a key with more release(k) than
\* get(k) calls, the count is never negative after a call (neither the
\* stored counter nor what reference_count returns), and no created value
\* is given to the deleter twice.
C9_OverReleaseSafe ==
    kind = "refcounted" =>
        \A k \in Keys : releases[k] > gets[k] =>
            /\ (Loaded(k) => map[k].refcount >= 0)
            /\ RefCount(k) >= 0 /\ RefCount(k) < SIZE_HUGE
            /\ \A i \in CreatedFor(k) : deleter_calls[i] <= 1

C9_Witness ==
    /\ kind = "refcounted"
    /\ gets["a"] = 2 /\ releases["a"] = 3
    /\ last.op = "release" /\ last.key = "a" /\ last.ret = FALSE
    /\ RefCount("a") = 0
    /\ deleter_calls = <<1>>

\* C10: release(k), peek(k) and is_loaded(k) on a key without a slot
\* raise nothing and leave the store as it was: release returns false,
\* peek returns null, is_loaded returns false, and no slot appears for k.
C10_MissIsNoOp ==
    [][\A k \in Keys :
        (~Loaded(k) /\ last'.key = k /\ last'.op \in {"release", "peek", "is_loaded"}) =>
            /\ ~last'.threw
            /\ StoreUnchanged
            /\ ~Loaded(k)'
            /\ (last'.op = "peek" => last'.ret = 0)
            /\ (last'.op \in {"release", "is_loaded"} => last'.ret = FALSE)]_vars

C10_Witness ==
    /\ kind = "refcounted"
    /\ last.op = "release" /\ last.key = "b" /\ last.ret = FALSE
    /\ gets["b"] = 0 /\ releases["b"] = 1
    /\ ~Loaded("b") /\ Loaded("a")
    /\ RefCount("b") = 0

\* C11: every value ever created has had the deleter called on it exactly
\* once if its slot has left the map and not at all while its slot is in
\* the map, whichever call removed it (release, a refcounted release that
\* reached zero, clear, the destructor): the deleter runs in the step that
\* removes the slot, not before, and no slot leaves without it.
C11_DeleterAtRemoval ==
    \A i \in DOMAIN creator_calls :
        deleter_calls[i] = IF SlotOf(map, i) # {} THEN 0 ELSE 1

C11_Witness ==
    /\ kind = "plain"
    /\ last.op = "clear"
    /\ releases["a"] = 1
    /\ Len(creator_calls) = 3
    /\ deleter_calls = <<1, 1, 1>>

\* C12 as stated: on a refcounted store a slot leaves the map only in a
\* release of its key that brings its count to zero; no operation removes a
\* slot whose count is still positive.
C12_AsStated ==
    [][kind = "refcounted" =>
        \A k \in Keys :
            (Loaded(k) /\ ~Loaded(k)') =>
                /\ last'.op = "release" /\ last'.key = k
                /\ map[k].refcount - 1 = 0]_vars

\* C12: on a refcounted store release(k) removes k's slot only when the
\* decrement brings its count to zero, and leaves the slot and the deleter
\* alone while the count stays positive; the only other calls that remove a
\* slot are clear and the destructor, which remove every slot whatever its
\* count.
C12_ReleaseRemovesAtZero ==
    [][kind = "refcounted" =>
        \A k \in Keys :
            /\ (Loaded(k) /\ ~Loaded(k)') =>
                  \/ /\ last'.op = "release" /\ last'.key = k
                     /\ map[k].refcount - 1 = 0
                  \/ last'.op \in {"clear", "destroy"}
            /\ (last'.op = "release" /\ last'.key = k /\ Loaded(k) /\ map[k].refcount > 1) =>
                  /\ Loaded(k)'
                  /\ deleter_calls' = deleter_calls
            /\ (last'.op \in {"clear", "destroy"}) => ~Loaded(k)']_vars

C12_Witness ==
    /\ kind = "refcounted"
    /\ last.op = "release" /\ last.key = "a" /\ last.via = "guard_dtor"
    /\ last.ret = TRUE /\ last.was_count = 1
    /\ gets["a"] = 2 /\ releases["a"] = 2
    /\ ~Loaded("a")
    /\ deleter_calls = <<1>>

\* A guard for the key of the previous call is destroyed in this step, and
\* the previous call was the get of a get_autorelease that built a guard.
GuardBuiltThenDestroyed ==
    /\ last.op = "get" /\ last.via = "get_autorelease" /\ ~last.threw
    /\ last'.op = "release" /\ last'.via = "guard_dtor" /\ last'.key = last.key

\* C13 as stated: whatever the state of the store, building a guard with
\* get_autorelease(k) and then destroying it leaves reference_count(k)
\* (refcounted store) or is_loaded(k) (plain store) as it was before the
\* guard was built.
C13_AsStated ==
    [][GuardBuiltThenDestroyed =>
        IF kind = "refcounted"
        THEN RefCount(last.key)' = last.was_count
        ELSE Loaded(last.key)' = last.was_loaded]_vars

\* C13: on a refcounted store, whatever its state, building a guard with
\* get_autorelease(k) raises reference_count(k) by one while the guard is
\* alive and destroying it brings the count back to what it was before the
\* guard was built.  On a plain store k is not loaded after the guard is
\* destroyed, which is the state before only when k was not loaded then.
C13_GuardPairing ==
    [][GuardBuiltThenDestroyed =>
        IF kind = "refcounted"
        THEN /\ RefCount(last.key) = last.was_count + 1
             /\ RefCount(last.key)' = last.was_count
             /\ Loaded(last.key)' = last.was_loaded
        ELSE ~Loaded(last.key)']_vars

C13_Witness ==
    /\ kind = "refcounted"
    /\ last.op = "release" /\ last.key = "a" /\ last.via = "guard_dtor"
    /\ last.ret = FALSE /\ last.was_count = 2
    /\ nops = 3 /\ gets["a"] = 2 /\ releases["a"] = 1
    /\ guards = <<>>
    /\ RefCount("a") = 1

\* The guards alive in this state.
LiveGuards == DOMAIN guards

\* The reference `value` of guard g designates the slot its key has in the map.
GuardLive(g) ==
    /\ Loaded(guards[g].key)
    /\ map[guards[g].key].id = guards[g].value

\* A call issued by a guard: its constructors, its destructor, its assignment.
GuardCall(c) ==
    c.via \in {"get_autorelease", "guard_copy", "guard_move", "guard_dtor", "guard_assign"}

\* C14, for the calls the guards themselves make: while a guard is alive its
\* key is loaded and its reference designates the key's slot; no complete
\* guard operation (construction, copy, move, destruction, assignment)
\* leaves a live guard with a stale or dangling reference.
C14_GuardNeverDangles ==
    [][(/\ Ready' /\ GuardCall(last')
        /\ \A g \in LiveGuards : GuardLive(g) \/ (pending # <<>> /\ g = pending[1]))
       => \A g \in LiveGuards' : GuardLive(g)']_vars

\* C15: a guard, however it was built (get_autorelease, copy construction,
\* target of a copy assignment), goes away only in a step that is one
\* release call on its store for the key it holds then: one more release
\* of that key, none of any other key, one store call; and one destructor
\* call lets exactly one guard go.
C15_OneReleasePerGuard ==
    [][/\ \A g \in LiveGuards \ LiveGuards' :
            /\ last'.op = "release" /\ last'.via = "guard_dtor"
            /\ last'.key = guards[g].key
            /\ releases' = [releases EXCEPT ![guards[g].key] = @ + 1]
            /\ gets' = gets
            /\ nops' = nops + 1
       /\ (last'.via = "guard_dtor" /\ nops' = nops + 1) =>
            /\ Cardinality(LiveGuards \ LiveGuards') = 1
            /\ LiveGuards' \subseteq LiveGuards]_vars

C15_Witness ==
    /\ kind = "plain"
    /\ last.op = "release" /\ last.key = "a" /\ last.via = "guard_dtor"
    /\ last.ret = FALSE
    /\ gets["a"] = 2 /\ releases["a"] = 2 /\ nops = 4
    /\ guards = <<>>

\* The live guards that hold key k.
GuardsFor(k) == {g \in LiveGuards : guards[g].key = k}

\* On every key the count is the number of live guards that hold it.
CountIsGuards == \A k \in Keys : RefCount(k) = Cardinality(GuardsFor(k))

\* C16: copy constructing a guard from a live guard for k is one get(k) on
\* the store and one more guard for k, so that on a refcounted store
\* reference_count(k) rises by exactly 1; and where the count of every key
\* is its number of live guards, building a guard (get_autorelease or copy)
\* and destroying one keep it so: with all acquisitions made through guards
\* the count is the number of live guards.
C16_CopyConstructGets ==
    [][/\ \A k \in Keys :
            (last'.via = "guard_copy" /\ last'.key = k /\ nops' = nops + 1 /\ ~last'.threw) =>
               /\ last'.op = "get"
               /\ GuardsFor(k) # {}
               /\ gets' = [gets EXCEPT ![k] = @ + 1]
               /\ Cardinality(GuardsFor(k)') = Cardinality(GuardsFor(k)) + 1
               /\ kind = "refcounted" => RefCount(k)' = RefCount(k) + 1
       /\ (/\ kind = "refcounted" /\ CountIsGuards
           /\ last'.via \in {"get_autorelease", "guard_copy", "guard_dtor"}
           /\ nops' = nops + 1) => CountIsGuards']_vars

C16_Witness ==
    /\ kind = "refcounted"
    /\ last.op = "get" /\ last.key = "a" /\ last.via = "guard_copy"
    /\ last.was_count = 1
    /\ RefCount("a") = 2
    /\ GuardsFor("a") = {1, 2}
    /\ gets["a"] = 2 /\ nops = 2

\* The first half of a copy assignment a = b is taken in this step.
AssignReleaseStep == pending = <<>> /\ pending' # <<>>

\* The second half of a copy assignment a = b is taken in this step, its get
\* returns and the assignment returns to its caller.
AssignGetStep == pending # <<>> /\ pending' = <<>> /\ ~last'.threw /\ ~crashed'

\* C17: a copy assignment a = b of two guards (taken here with different
\* keys) first calls release on a's key and only then get on b's key; afterwards a refers to b's key (its
\* key is b's and its reference designates that key's slot) and, on a
\* refcounted store, the count of a's previous key has dropped by exactly 1
\* and the count of b's key has risen by exactly 1.
C17_AssignReleasesThenGets ==
    [][/\ AssignReleaseStep =>
            /\ last'.op = "release" /\ last'.via = "guard_assign"
            /\ last'.key = guards[pending'[1]].key
            /\ \A k \in Keys :
                  (kind = "refcounted" /\ last'.key = k /\ Loaded(k)) =>
                      RefCount(k)' = RefCount(k) - 1
       /\ (AssignGetStep /\ guards[pending[1]].key # guards[pending[2]].key) =>
            /\ last.op = "release" /\ last.via = "guard_assign"
            /\ last'.op = "get" /\ last'.via = "guard_assign"
            /\ last'.key = guards[pending[2]].key
            /\ guards'[pending[1]].key = guards[pending[2]].key
            /\ \E k \in Keys : /\ k = guards'[pending[1]].key
                               /\ Loaded(k)'
                               /\ map'[k].id = guards'[pending[1]].value
            /\ \A k \in Keys :
                  (kind = "refcounted" /\ last'.key = k) => RefCount(k)' = RefCount(k) + 1]_vars

\* A guard is constructed from an rvalue guard in this step.
MoveStep == last'.via = "guard_move" /\ nops' = nops + 1

\* C18: moving a guard hands its one reference over without a get or a
\* release on the store: the store and the count of the key are as before
\* the move, no get is counted, and the number of guards that will release
\* is as before (one release for the moved reference).
C18_MoveIsNotAGet ==
    [][MoveStep =>
        /\ StoreUnchanged
        /\ gets' = gets /\ releases' = releases
        /\ \A k \in Keys : RefCount(k)' = RefCount(k)
        /\ Cardinality(LiveGuards') = Cardinality(LiveGuards)]_vars

\* C19: when the creator fails in get(k) on a key that is not loaded, the
\* failure is what that get returns (also to a guard constructor, which
\* then builds no guard), the creator was invoked once and not again, and
\* the store is as before: no slot for k, is_loaded(k) false,
\* reference_count(k) 0, every other slot and count unchanged, nothing
\* created or deleted.
C19_CreatorFailureLeavesStore ==
    [][\A k \in Keys :
        (last'.op = "get" /\ last'.key = k /\ last'.threw /\ nops' = nops + 1) =>
            /\ ~Loaded(k)
            /\ last'.ncreator = 1
            /\ StoreUnchanged
            /\ OthersUnchanged(k)
            /\ ~is_loaded(Store, k).ret'
            /\ kind = "refcounted" => RefCount(k)' = 0
            /\ gets' = gets
            /\ guards' = guards]_vars

C19_Witness ==
    /\ kind = "refcounted"
    /\ last.op = "get" /\ last.key = "b" /\ last.threw
    /\ last.via = "get_autorelease"
    /\ Loaded("a") /\ RefCount("a") = 1
    /\ ~Loaded("b") /\ RefCount("b") = 0
    /\ creator_calls = <<"a">>
    /\ guards = <<>>

\* A call of peek, is_loaded or reference_count is made in this step.
ReadStep == last'.op \in {"peek", "is_loaded", "reference_count"} /\ nops' = nops

\* C20: peek(k), is_loaded(k) and reference_count(k) are read-only: they
\* invoke neither creator nor deleter, insert and remove no slot, change no
\* count and raise nothing; peek returns the loaded value or null,
\* is_loaded whether k has a slot, reference_count the slot's counter or 0
\* when k is not loaded.
C20_ReadsAreReadOnly ==
    [][\A k \in Keys :
        (ReadStep /\ last'.key = k) =>
            /\ StoreUnchanged
            /\ guards' = guards /\ gets' = gets /\ releases' = releases
            /\ last'.ncreator = 0 /\ ~last'.threw
            /\ last'.op = "peek" => last'.ret = IF Loaded(k) THEN map[k].id ELSE 0
            /\ last'.op = "is_loaded" => last'.ret = Loaded(k)
            /\ last'.op = "reference_count" =>
                  last'.ret = IF Loaded(k) THEN map[k].refcount ELSE 0]_vars

C20_Witness ==
    /\ kind = "refcounted"
    /\ last.op = "reference_count" /\ last.key = "a" /\ last.ret = 2
    /\ map["a"].refcount = 2
    /\ ~Loaded("b")
    /\ creator_calls = <<"a">> /\ deleter_calls = <<0>>

\* The deleter log after one more call on every slot that is in the map now.
DeletedAllPresent ==
    [i \in DOMAIN deleter_calls |->
        deleter_calls[i] + (IF SlotOf(map, i) # {} THEN 1 ELSE 0)]

\* C21: clear() calls the deleter once on every slot present at the call,
\* whatever its reference count, on no other value, creates nothing and
\* leaves the map empty: afterwards is_loaded(k) is false and
\* reference_count(k) is 0 for every key k.
C21_ClearDeletesAll ==
    [][(last'.op = "clear" /\ nops' = nops + 1) =>
        /\ deleter_calls' = DeletedAllPresent
        /\ creator_calls' = creator_calls
        /\ DOMAIN map' = {}
        /\ \A k \in Keys :
              /\ ~is_loaded(Store, k).ret'
              /\ kind = "refcounted" => RefCount(k)' = 0]_vars

C21_Witness ==
    /\ kind = "refcounted"
    /\ last.op = "clear"
    /\ gets["a"] = 2 /\ gets["b"] = 1
    /\ releases["a"] = 0 /\ releases["b"] = 0
    /\ deleter_calls = <<1, 1>>
    /\ DOMAIN map = {}
    /\ RefCount("a") = 0 /\ RefCount("b") = 0

\* C22: destroying a store does to its slots what clear() does: the deleter
\* is called exactly once on every slot still present at destruction and on
\* no value that was released or cleared before.
C22_DestroyLikeClear ==
    [][(last'.op = "destroy" /\ nops' = nops + 1) =>
        /\ deleter_calls' = DeletedAllPresent
        /\ creator_calls' = creator_calls
        /\ \A i \in DOMAIN deleter_calls' : deleter_calls'[i] = 1
        /\ [map |-> map', creator_calls |-> creator_calls', deleter_calls |-> deleter_calls']
              = IF kind = "plain" THEN clear(Store) ELSE rc_clear(Store)
        /\ ~alive']_vars

C22_Witness ==
    /\ kind = "plain"
    /\ last.op = "destroy" /\ ~alive
    /\ releases["a"] = 1 /\ gets["a"] = 2 /\ gets["b"] = 1
    /\ cleared["a"] /\ cleared["b"]
    /\ deleter_calls = <<1, 1, 1>>

----------------------------------------------------------------------------
\* Several threads calling one store.  A call is a sequence of steps, one
\* for each statement of the operation that reads or writes the store or
\* runs a callback; steps of different threads interleave as far as the
\* lock lets them.

\* Calls over all threads in one run.
MaxCalls == 3

B(b) == IF b THEN 1 ELSE 0

\* Faulty variant: the dummy lock waits for the mutex and takes it.
dummy_lock_excludes(m, t) == [granted |-> m = NoThread, mutex |-> t]

\* detail::dummy_lock: constructing it from the mutex does nothing.
dummy_lock(m, t) == [granted |-> TRUE, mutex |-> m]

\* Faulty variant: the lock guard does not wait for the owner of the mutex.
lock_guard_no_wait(m, t) == [granted |-> TRUE, mutex |-> t]

\* std::lock_guard<std::mutex>: the constructor waits until the mutex is
\* free and owns it.  The mutex is not recursive: its owner waits as well.
lock_guard(m, t) == [granted |-> m = NoThread, mutex |-> t]

\* Faulty variant: the threadsafe alias passes no Mutex and Lock, the defaults apply.
Lock_defaults(m, t) == dummy_lock(m, t)

\* Lock lock { mutex }, Lock being the template parameter of the store.
Lock(m, t) == IF threadsafe THEN lock_guard(m, t) ELSE dummy_lock(m, t)

\* Faulty variant: the mutex stays owned when the call returns.
Unlock_forgets(m, t) == m

\* ~Lock at the end of the operation, also when an exception leaves it.
Unlock(m, t) == IF threadsafe THEN NoThread ELSE m

\* The call `op(key)` run in one piece on store s; ok: the creator returns.
SeqCall(s, op, key, ok) ==
    CASE op = "get" ->
            LET r == fw_get(s, key, ok) IN [s |-> r.s, ret |-> r.ret, threw |-> r.threw]
      [] op = "release" ->
            LET r == fw_release(s, key) IN [s |-> r.s, ret |-> B(r.ret), threw |-> FALSE]
      [] op = "peek" ->
            LET r == IF kind = "plain" THEN peek(s, key) ELSE rc_peek(s, key)
            IN [s |-> r.s, ret |-> r.ret, threw |-> FALSE]
      [] op = "is_loaded" ->
            LET r == IF kind = "plain" THEN is_loaded(s, key) ELSE rc_is_loaded(s, key)
            IN [s |-> r.s, ret |-> B(r.ret), threw |-> FALSE]
      [] op = "reference_count" ->
            LET r == reference_count(s, key) IN [s |-> r.s, ret |-> r.ret, threw |-> FALSE]
      [] op = "clear" ->
            [s |-> IF kind = "plain" THEN clear(s) ELSE rc_clear(s), ret |-> 0, threw |-> FALSE]
      [] op = "destroy" ->
            [s |-> IF kind = "plain" THEN destroy(s) ELSE rc_destroy(s), ret |-> 0, threw |-> FALSE]

KeyedOps == {"get", "release", "peek", "is_loaded", "reference_count"}

\* What no step of a thread changes.
TFrame == UNCHANGED <<kind, threadsafe, guards, pending, gets, releases, stray, cleared, last, hvars, wvars>>

\* A thread calls an operation.  The destructor runs when no other call is
\* in progress and no call is made on a store being destroyed.
Invoke(t, op, key) ==
    /\ alive /\ ~crashed /\ nops < MaxCalls
    /\ thr[t].pc = "idle"
    /\ \A u \in Threads : thr[u].op # "destroy"
    /\ op = "reference_count" => kind = "refcounted"
    /\ op = "destroy" => \A u \in Threads : thr[u].pc = "idle"
    /\ thr' = [thr EXCEPT ![t] = [Idle EXCEPT !.pc = "lock", !.op = op, !.key = key]]
    /\ nops' = nops + 1
    /\ UNCHANGED <<alive, map, creator_calls, deleter_calls, crashed, mutex, shadow, mismatch, obs>>
    /\ TFrame

\* Faulty variant: the operation goes on without waiting for the lock.
Acquire_no_wait(t) ==
    /\ ~crashed /\ thr[t].pc = "lock"
    /\ mutex' = Lock(mutex, t).mutex
    /\ thr' = IF thr[t].op \in {"clear", "destroy"}
              THEN [thr EXCEPT ![t].pc = "loop", ![t].todo = {map[k].id : k \in DOMAIN map}]
              ELSE [thr EXCEPT ![t].pc = "find"]
    /\ UNCHANGED <<alive, map, creator_calls, deleter_calls, crashed, nops, shadow, mismatch, obs>>
    /\ TFrame

\* Lock lock { mutex }: the first statement of every operation.  clear and
\* the destructors then start their loop over the map.
Acquire(t) ==
    /\ ~crashed /\ thr[t].pc = "lock"
    /\ Lock(mutex, t).granted
    /\ mutex' = Lock(mutex, t).mutex
    /\ thr' = IF thr[t].op \in {"clear", "destroy"}
              THEN [thr EXCEPT ![t].pc = "loop", ![t].todo = {map[k].id : k \in DOMAIN map}]
              ELSE [thr EXCEPT ![t].pc = "find"]
    /\ UNCHANGED <<alive, map, creator_calls, deleter_calls, crashed, nops, shadow, mismatch, obs>>
    /\ TFrame

\* auto it = map.find(key) and the test of it against map.end().
Find(t) ==
    /\ ~crashed /\ thr[t].pc = "find"
    /\ LET r == thr[t]
           it == IF r.key \in DOMAIN map THEN map[r.key].id ELSE 0
           after == IF kind = "refcounted" THEN "ref_read" ELSE "deleter"
       IN thr' = [thr EXCEPT ![t] =
             CASE r.op = "get" ->
                     IF it = 0 THEN [r EXCEPT !.pc = "create"]
                     ELSE IF kind = "refcounted" THEN [r EXCEPT !.pc = "ref_read", !.it = it]
                     ELSE [r EXCEPT !.pc = "return", !.it = it, !.ret = it]
               [] r.op = "release" ->
                     IF it = 0 THEN [r EXCEPT !.pc = "return", !.ret = 0]
                     ELSE [r EXCEPT !.pc = after, !.it = it]
               [] r.op = "peek" -> [r EXCEPT !.pc = "return", !.ret = it]
               [] r.op = "is_loaded" -> [r EXCEPT !.pc = "return", !.ret = B(it # 0)]
               [] r.op = "reference_count" ->
                     [r EXCEPT !.pc = "return",
                               !.ret = IF it = 0 THEN 0 ELSE to_size_t(map[r.key].refcount)]]
    /\ UNCHANGED <<alive, map, creator_calls, deleter_calls, crashed, nops, mutex, shadow, mismatch, obs>>
    /\ TFrame

\* creator(key), the argument of map.emplace: it returns a value or throws;
\* the exception leaves get, which unlocks.
Creator(t) ==
    /\ ~crashed /\ thr[t].pc = "create"
    /\ \E ok \in BOOLEAN :
          IF ok
          THEN /\ creator_calls' = Append(creator_calls, thr[t].key)
               /\ deleter_calls' = Append(deleter_calls, 0)
               /\ thr' = [thr EXCEPT ![t].pc = "emplace", ![t].val = Len(creator_calls) + 1]
          ELSE /\ UNCHANGED <<creator_calls, deleter_calls>>
               /\ thr' = [thr EXCEPT ![t].pc = "return", ![t].threw = TRUE]
    /\ UNCHANGED <<alive, map, crashed, nops, mutex, shadow, mismatch, obs>>
    /\ TFrame

\* it = map.emplace(key, <created value>).first: when the key has a slot by
\* now nothing is inserted and the created value is dropped.
Emplace(t) ==
    /\ ~crashed /\ thr[t].pc = "emplace"
    /\ LET r == thr[t]
           slot == IF kind = "plain" THEN [id |-> r.val, value |-> creator(r.key)]
                   ELSE refcounted_value(r.val, creator(r.key))
           m == emplace(map, r.key, slot)
       IN /\ map' = m
          /\ thr' = [thr EXCEPT ![t] =
                IF kind = "refcounted" THEN [r EXCEPT !.pc = "ref_read", !.it = m[r.key].id]
                ELSE [r EXCEPT !.pc = "return", !.it = m[r.key].id, !.ret = m[r.key].id]]
    /\ UNCHANGED <<alive, creator_calls, deleter_calls, crashed, nops, mutex, shadow, mismatch, obs>>
    /\ TFrame

\* refcount++ and --refcount, first half: the counter is read through the
\* iterator.  An iterator to an erased slot is invalid: undefined.
RefRead(t) ==
    /\ ~crashed /\ thr[t].pc = "ref_read"
    /\ LET at == SlotOf(map, thr[t].it)
       IN IF at = {}
          THEN crashed' = TRUE /\ UNCHANGED thr
          ELSE /\ thr' = [thr EXCEPT ![t].pc = "ref_write",
                                     ![t].seen = map[CHOOSE k \in at : TRUE].refcount]
               /\ UNCHANGED crashed
    /\ UNCHANGED <<alive, map, creator_calls, deleter_calls, nops, mutex, shadow, mismatch, obs>>
    /\ TFrame

\* refcount++ and --refcount, second half: the counter is written.  get
\* returns the value; release goes on to the deleter when the new count is
\* <= 0 and returns false otherwise.
RefWrite(t) ==
    /\ ~crashed /\ thr[t].pc = "ref_write"
    /\ LET r == thr[t]
           at == SlotOf(map, r.it)
           k == CHOOSE x \in at : TRUE
           n == IF r.op = "get" THEN r.seen + 1 ELSE r.seen - 1
       IN IF at = {}
          THEN crashed' = TRUE /\ UNCHANGED <<thr, map>>
          ELSE /\ map' = [map EXCEPT ![k].refcount = n]
               /\ thr' = [thr EXCEPT ![t] =
                     IF r.op = "get" THEN [r EXCEPT !.pc = "return", !.ret = r.it]
                     ELSE IF n <= 0 THEN [r EXCEPT !.pc = "deleter"]
                     ELSE [r EXCEPT !.pc = "return", !.ret = 0]]
               /\ UNCHANGED crashed
    /\ UNCHANGED <<alive, creator_calls, deleter_calls, nops, mutex, shadow, mismatch, obs>>
    /\ TFrame

\* deleter(it->second) is called: in release on the slot found, in clear and
\* the destructors on the next slot of the loop.  A slot another thread has
\* erased meanwhile leaves the iterator invalid: undefined.
DeleterBegin(t) ==
    /\ ~crashed
    /\ \/ /\ thr[t].pc = "deleter"
          /\ IF SlotOf(map, thr[t].it) = {}
             THEN crashed' = TRUE /\ UNCHANGED thr
             ELSE /\ thr' = [thr EXCEPT ![t].pc = "in_deleter", ![t].cur = thr[t].it]
                  /\ UNCHANGED crashed
       \/ /\ thr[t].pc = "loop"
          /\ \E id \in thr[t].todo :
                IF SlotOf(map, id) = {}
                THEN crashed' = TRUE /\ UNCHANGED thr
                ELSE /\ thr' = [thr EXCEPT ![t].pc = "in_deleter", ![t].cur = id,
                                           ![t].todo = thr[t].todo \ {id}]
                     /\ UNCHANGED crashed
    /\ UNCHANGED <<alive, map, creator_calls, deleter_calls, nops, mutex, shadow, mismatch, obs>>
    /\ TFrame

\* Faulty variant: the mutex is recursive, the nested call of the owner runs.
CallbackIsLoaded_recursive(t, k) ==
    /\ ~crashed /\ thr[t].pc \in {"in_deleter", "create"}
    /\ obs' = [key |-> k, loaded |-> k \in DOMAIN map,
               deleted |-> k \in DOMAIN map /\ deleter_calls[map[k].id] > 0]
    /\ UNCHANGED <<thr, alive, map, creator_calls, deleter_calls, crashed, nops, mutex, shadow, mismatch>>
    /\ TFrame

\* The creator or deleter callback calls is_loaded(k) on the store it
\* belongs to; as every operation, the call starts with Lock lock { mutex }.
\* With the dummy lock the call runs and sees the map as it is.  With
\* std::mutex the thread locks a mutex it owns, which is undefined: it waits
\* for itself and the callback never returns, or the lock attempt fails
\* with std::system_error (resource_deadlock_would_occur) and the callback
\* goes on with that error in hand; the nested call does not run.
CallbackIsLoaded(t, k) ==
    /\ ~crashed /\ thr[t].pc \in {"in_deleter", "create"}
    /\ IF Lock(mutex, t).granted
       THEN /\ obs' = [key |-> k, loaded |-> k \in DOMAIN map,
                       deleted |-> k \in DOMAIN map /\ deleter_calls[map[k].id] > 0]
            /\ UNCHANGED thr
       ELSE /\ \/ thr' = [thr EXCEPT ![t].pc = "self_deadlock"]
               \/ thr' = [thr EXCEPT ![t].nested = "error"]
            /\ UNCHANGED obs
    /\ UNCHANGED <<alive, map, creator_calls, deleter_calls, crashed, nops, mutex, shadow, mismatch>>
    /\ TFrame

\* The deleter callback returns.
DeleterEnd(t) ==
    /\ ~crashed /\ thr[t].pc = "in_deleter"
    /\ deleter_calls' = [deleter_calls EXCEPT ![thr[t].cur] = @ + 1]
    /\ thr' = [thr EXCEPT ![t].pc = IF thr[t].op = "release" THEN "erase" ELSE "loop"]
    /\ UNCHANGED <<alive, map, creator_calls, crashed, nops, mutex, shadow, mismatch, obs>>
    /\ TFrame

\* map.erase(it) of release.
Erase(t) ==
    /\ ~crashed /\ thr[t].pc = "erase"
    /\ LET at == SlotOf(map, thr[t].it)
       IN IF at = {}
          THEN crashed' = TRUE /\ UNCHANGED <<thr, map>>
          ELSE /\ map' = erase(map, CHOOSE k \in at : TRUE)
               /\ thr' = [thr EXCEPT ![t].pc = "return", ![t].ret = 1]
               /\ UNCHANGED crashed
    /\ UNCHANGED <<alive, creator_calls, deleter_calls, nops, mutex, shadow, mismatch, obs>>
    /\ TFrame

\* The loop of clear and of the destructors is over: map.clear(), or the map
\* dies with the store.
LoopEnd(t) ==
    /\ ~crashed /\ thr[t].pc = "loop" /\ thr[t].todo = {}
    /\ map' = EmptyMap
    /\ thr' = [thr EXCEPT ![t].pc = "return"]
    /\ UNCHANGED <<alive, creator_calls, deleter_calls, crashed, nops, mutex, shadow, mismatch, obs>>
    /\ TFrame

\* The operation returns (or its exception leaves it) and leaves the mutex
\* as m.  The call is then run in one piece on `shadow` and the results
\* compared.  In a copy assignment of guards the release is followed by
\* other.flyweight.get(other.key); when that get has returned, operator=
\* assigns through its reference `value`, takes the key over and flows off
\* its end without a return statement, which is undefined: the call returns
\* to its caller, or the program ends there.
ReturnTo(t, m) ==
    /\ ~crashed /\ thr[t].pc = "return"
    /\ mutex' = m
    /\ LET r == thr[t]
           q == SeqCall(shadow, r.op, r.key, ~r.threw)
       IN /\ shadow' = q.s
          /\ mismatch' = (mismatch \/ q.ret # r.ret \/ q.threw # r.threw)
    /\ alive' = (thr[t].op # "destroy")
    /\ LET r == thr[t]
       IN IF r.assign = <<>> \/ r.threw
          THEN /\ thr' = [thr EXCEPT ![t] = Idle]
               /\ UNCHANGED <<map, guards, crashed>>
          ELSE IF r.op = "release"
          THEN /\ thr' = [thr EXCEPT ![t] = [Idle EXCEPT !.pc = "lock", !.op = "get",
                                                         !.key = guards[r.assign[2]].key,
                                                         !.assign = r.assign]]
               /\ UNCHANGED <<map, guards, crashed>>
          ELSE LET a == r.assign[1]
                   old == guards[a].value
                   target == SlotOf(map, old)
                   reused == IF target = {} /\ r.val # 0 THEN {old, r.ret} ELSE {old}
               IN /\ map' = [x \in DOMAIN map |->
                                IF x \in target THEN [map[x] EXCEPT !.value = map[r.key].value]
                                ELSE map[x]]
                  /\ \E v \in reused :
                        guards' = [guards EXCEPT ![a] = [key |-> r.key, value |-> v]]
                  /\ crashed' \in BOOLEAN
                  /\ thr' = [thr EXCEPT ![t] = Idle]
    /\ UNCHANGED <<creator_calls, deleter_calls, nops, obs>>
    /\ UNCHANGED <<kind, threadsafe, pending, gets, releases, stray, cleared, last, hvars, wvars>>

\* Faulty variant: the assignment keeps the mutex from its release to its get.
Return_keeps_mutex(t) ==
    ReturnTo(t, IF thr[t].assign # <<>> /\ thr[t].op = "release" THEN mutex
                ELSE Unlock(mutex, t))

\* ~Lock at the end of every operation unlocks.
Return(t) == ReturnTo(t, Unlock(mutex, t))

\* a = b on two guards, called by thread t: operator= starts with
\* flyweight.release(key).  No two threads assign guards at once: a guard is
\* an object of its own and not shared between threads.
Assign(t, a, b) ==
    /\ alive /\ ~crashed /\ nops + 1 < MaxCalls
    /\ thr[t].pc = "idle"
    /\ \A u \in Threads : thr[u].op # "destroy" /\ thr[u].assign = <<>>
    /\ a \in DOMAIN guards /\ b \in DOMAIN guards
    /\ thr' = [thr EXCEPT ![t] = [Idle EXCEPT !.pc = "lock", !.op = "release",
                                              !.key = guards[a].key, !.assign = <<a, b>>]]
    /\ nops' = nops + 2
    /\ UNCHANGED <<alive, map, creator_calls, deleter_calls, crashed, mutex, shadow, mismatch, obs>>
    /\ TFrame

\* One store of either class, with or without the threadsafe Mutex and Lock.
InitThreads == InitStore /\ threadsafe \in BOOLEAN /\ NoThreads /\ NoHash /\ NoWeak

\* The steps of the threads in T.
NextOf(T) ==
    \/ \E t \in T, op \in KeyedOps, k \in Keys : Invoke(t, op, k)
    \/ \E t \in T, op \in {"clear", "destroy"} : Invoke(t, op, NoKey)
    \/ \E t \in T : Acquire(t)
    \/ \E t \in T : Find(t)
    \/ \E t \in T : Creator(t)
    \/ \E t \in T : Emplace(t)
    \/ \E t \in T : RefRead(t)
    \/ \E t \in T : RefWrite(t)
    \/ \E t \in T : DeleterBegin(t)
    \/ \E t \in T, k \in Keys : CallbackIsLoaded(t, k)
    \/ \E t \in T : DeleterEnd(t)
    \/ \E t \in T : Erase(t)
    \/ \E t \in T : LoopEnd(t)
    \/ \E t \in T : Return(t)

NextThreads == NextOf(Threads)

\* One thread alone calls the store; its callbacks may call back into it.
NextOneThread == NextOf({"t1"})

SpecOneThread == InitThreads /\ [][NextOneThread]_vars

SpecThreads == InitThreads /\ [][NextThreads]_vars

\* A store with std::mutex and std::lock_guard after
\* g1 = get_autorelease(a); g2 = get_autorelease(b), no call in progress.
InitAssign ==
    /\ kind \in {"plain", "refcounted"}
    /\ alive = TRUE
    /\ LET s == fw_get(fw_get(EmptyStore, "a", TRUE).s, "b", TRUE).s
       IN /\ map = s.map /\ creator_calls = s.creator_calls /\ deleter_calls = s.deleter_calls
          /\ shadow = s
          /\ guards = AddGuard(AddGuard([g \in {} |-> 0], 1, "a", s.map["a"].id), 2, "b", s.map["b"].id)
    /\ pending = <<>>
    /\ crashed = FALSE
    /\ gets = [k \in Keys |-> 1]
    /\ releases = [k \in Keys |-> 0]
    /\ stray = [k \in Keys |-> FALSE]
    /\ cleared = [k \in Keys |-> FALSE]
    /\ last = [op |-> "get", key |-> "b", via |-> "get_autorelease", ret |-> 2, threw |-> FALSE,
               ncreator |-> 1, was_loaded |-> FALSE, was_count |-> 0]
    /\ nops = 0
    /\ threadsafe = TRUE
    /\ mutex = NoThread /\ thr = [t \in Threads |-> Idle] /\ mismatch = FALSE /\ obs = NoObs
    /\ NoHash /\ NoWeak

\* The threads call the store and assign the guards.
NextAssign ==
    \/ \E t \in Threads, a, b \in GuardIds : Assign(t, a, b)
    \/ NextOf(Threads)

SpecAssign == InitAssign /\ [][NextAssign]_vars

\* A step of the call thread t is in, other than waiting at the Lock
\* statement and other than a call made by the deleter callback.
Step(t) ==
    \/ Find(t) \/ Creator(t) \/ Emplace(t) \/ RefRead(t) \/ RefWrite(t)
    \/ DeleterBegin(t) \/ DeleterEnd(t) \/ Erase(t) \/ LoopEnd(t) \/ Return(t)

\* Fair scheduling: a thread that can take the next step of its call takes
\* it, creator and deleter callbacks return, and a thread waiting for a
\* mutex that is free again and again gets it.
Fairness == \A t \in Threads : WF_vars(Step(t)) /\ SF_vars(Acquire(t))

\* Callers that keep to the contract of the store: several threads call a
\* store that has std::mutex and std::lock_guard, one thread alone calls a
\* store that has the dummy ones.
NextContract ==
    \/ threadsafe /\ NextOf(Threads)
    \/ ~threadsafe /\ NextOf({"t1"})

FairSpecThreads == InitThreads /\ [][NextContract]_vars /\ Fairness

\* Thread t is inside an operation: past its Lock statement, not yet returned.
Inside(t) == thr[t].pc \notin {"idle", "lock"}

\* C23: with std::mutex and std::lock_guard every operation owns the one
\* mutex of the store from its first map access until it returns, the whole
\* creator or deleter call included, so two threads are never inside
\* operations of the same store at once.
C23_MutualExclusion ==
    threadsafe =>
        /\ \A t \in Threads : Inside(t) => mutex = t
        /\ \A t, u \in Threads : (Inside(t) /\ Inside(u)) => t = u

\* C23: one thread is inside the creator of get(a) while the other one has
\* called release(a) and waits at its Lock statement.
C23_Witness ==
    /\ threadsafe /\ kind = "refcounted"
    /\ thr["t1"].pc = "emplace" /\ thr["t1"].op = "get" /\ thr["t1"].key = "a"
    /\ thr["t2"].pc = "lock" /\ thr["t2"].op = "release" /\ thr["t2"].key = "a"
    /\ mutex = "t1"
    /\ ~Lock(mutex, "t2").granted

\* C24: with std::mutex and std::lock_guard every run of several threads on
\* one store is linearizable: each call returns what it returns when the
\* calls run one after the other in the order in which they return (an order
\* that keeps each thread's program order), no call meets undefined
\* behaviour, and whenever no call is in progress the store is the one that
\* sequential run leaves.
C24_Linearizable ==
    threadsafe =>
        /\ ~mismatch
        /\ ~crashed
        /\ mutex = NoThread => Store = shadow

\* C24: get(a) of one thread has returned; the same thread is now inside the
\* deleter of release(a) while the other thread's get(a) waits for the mutex.
C24_Witness ==
    /\ threadsafe /\ kind = "refcounted" /\ nops = 3
    /\ thr["t1"].op = "release" /\ thr["t1"].key = "a" /\ thr["t1"].pc = "in_deleter"
    /\ thr["t2"].op = "get" /\ thr["t2"].key = "a" /\ thr["t2"].pc = "lock"
    /\ shadow.creator_calls = <<"a">> /\ shadow.map["a"].refcount = 1
    /\ map["a"].refcount = 0

\* C25: with the default dummy mutex and lock the Lock statement excludes
\* nobody: the mutex is never owned and every thread passes its Lock
\* statement at once, whatever the other thread is doing, so the steps of
\* two calls interleave freely.
C25_NoExclusion ==
    ~threadsafe =>
        /\ mutex = NoThread
        /\ \A t \in Threads : Lock(mutex, t).granted
        /\ \A t \in Threads : thr[t].pc = "lock" => ENABLED Acquire(t) \/ crashed

\* C25: two get(a) calls on a default refcounted store have interleaved and
\* both returned: the creator ran twice for a, and the slot counts one
\* reference although two were taken.
C25_Witness ==
    /\ ~threadsafe /\ kind = "refcounted" /\ ~crashed /\ nops = 2
    /\ \A t \in Threads : thr[t].pc = "idle"
    /\ creator_calls = <<"a", "a">>
    /\ shadow.creator_calls = <<"a">> /\ shadow.map["a"].refcount = 2
    /\ "a" \in DOMAIN map /\ map["a"].refcount = 1
    /\ mismatch

\* C26: the deleter call and the removal of the slot from the map are one
\* step for every observer: no is_loaded made from inside a deleter callback
\* finds a key loaded whose deleter has already returned.
C26_DeleteAtomic == ~obs.deleted

\* The callers through which a get and a release reach the store.
GetCallers == {"direct", "get_autorelease", "guard_copy", "guard_move", "guard_assign"}
ReleaseCallers == {"direct", "guard_dtor", "guard_assign"}

\* C27: on a plain store a key becomes loaded only in a step that is a get
\* of that key (called directly, by get_autorelease or by the copy of a
\* guard), and stops being loaded only in a step that is a release of that
\* key (called directly or by a guard's destructor or copy assignment), a
\* clear or the destruction of the store; peek and is_loaded leave the set
\* of loaded keys as it is.
C27_LoadedOnlyByGetRelease ==
    [][kind = "plain" =>
        /\ \A k \in Keys :
            /\ (~Loaded(k) /\ Loaded(k)') =>
                    /\ nops' = nops + 1
                    /\ GetStep(k) /\ last'.via \in GetCallers
            /\ (Loaded(k) /\ ~Loaded(k)') =>
                    /\ nops' = nops + 1
                    /\ \/ ReleaseStep(k) /\ last'.via \in ReleaseCallers
                       \/ last'.op \in {"clear", "destroy"}
        /\ ReadStep => DOMAIN map' = DOMAIN map]_vars

\* C27: on a plain store a was loaded by get_autorelease and b by a direct
\* get; a has been unloaded again by the destructor of its guard.
C27_Witness ==
    /\ kind = "plain" /\ alive
    /\ creator_calls = <<"a", "b">>
    /\ gets = [a |-> 1, b |-> 1]
    /\ last.op = "release" /\ last.key = "a" /\ last.via = "guard_dtor" /\ last.was_loaded
    /\ ~Loaded("a") /\ Loaded("b")
    /\ guards = <<>>

\* A deleter callback waits for the mutex its own thread owns.
CallbackStuck == \E t \in Threads : thr[t].pc = "self_deadlock"

\* C28: every call returns and leaves the mutex free: a thread waits only at
\* its Lock statement and only while the mutex is owned, inside a call it
\* can always take its next step, an idle thread owns nothing, and under
\* fair scheduling every call a thread has made is eventually over, unless a
\* callback does not return.
C28_CallsReturn ==
    /\ [](\A t \in Threads :
            /\ thr[t].pc = "idle" => mutex # t
            /\ (thr[t].pc = "lock" /\ ~ENABLED Acquire(t)) => mutex \in Threads
            /\ (Inside(t) /\ thr[t].pc # "self_deadlock") => ENABLED Step(t))
    /\ \A t \in Threads :
            (thr[t].pc # "idle") ~> (thr[t].pc = "idle" \/ CallbackStuck)

\* C28: with std::mutex three calls were made by two threads, creator and
\* deleter ran, and all calls have returned with the mutex free.
C28_Witness ==
    /\ threadsafe /\ kind = "refcounted" /\ nops = 3 /\ alive
    /\ \A t \in Threads : thr[t].pc = "idle"
    /\ mutex = NoThread
    /\ creator_calls = <<"a">> /\ deleter_calls = <<1>>
    /\ shadow = Store /\ map = EmptyMap

----------------------------------------------------------------------------
\* The hash of tuple keys.  A std::size_t is a sequence of 16-bit limbs,
\* least significant first: two limbs where size_t has 32 bits, four where
\* it has 64.

\* Components of a key tuple.
MaxArity == 3

Base == 65536
Widths == {2, 4}
Components == {-1, 0, 1, 2}

\* x ^ y on two limbs, bit by bit.
RECURSIVE XorBits(_, _, _)
XorBits(x, y, n) ==
    IF n = 0 THEN 0
    ELSE (((x % 2) + (y % 2)) % 2) + 2 * XorBits(x \div 2, y \div 2, n - 1)

\* a ^ b
XOR(a, b) == [i \in DOMAIN a |-> XorBits(a[i], b[i], 16)]

\* The carry into limb i of a + b.
RECURSIVE CarryInto(_, _, _)
CarryInto(a, b, i) ==
    IF i = 1 THEN 0 ELSE (a[i - 1] + b[i - 1] + CarryInto(a, b, i - 1)) \div Base

\* a + b on size_t: the carry out of the last limb is lost.
ADD(a, b) == [i \in DOMAIN a |-> (a[i] + b[i] + CarryInto(a, b, i)) % Base]

\* a << 6
SHL6(a) ==
    [i \in DOMAIN a |-> ((a[i] * 64) % Base) + (IF i > 1 THEN a[i - 1] \div 1024 ELSE 0)]

\* a >> 2
SHR2(a) ==
    [i \in DOMAIN a |-> (a[i] \div 4) + (IF i < Len(a) THEN (a[i + 1] % 4) * 16384 ELSE 0)]

\* The literal 0x9e3779b9 (limbs 0x79b9 and 0x9e37) converted to size_t.
GOLDEN(w) == [i \in 1..w |-> IF i = 1 THEN 31161 ELSE IF i = 2 THEN 40503 ELSE 0]

\* Faulty variant: the xor is taken first, (a ^ b) + 0x9e3779b9 + (a << 6) + (a >> 2).
hash_combine_xor_first(a, b) ==
    ADD(ADD(ADD(XOR(a, b), GOLDEN(Len(a))), SHL6(a)), SHR2(a))

\* detail::hash_combine: a ^ b + 0x9e3779b9 + (a << 6) + (a >> 2), where +
\* binds tighter than ^ and associates to the left.
hash_combine(a, b) ==
    XOR(a, ADD(ADD(ADD(b, GOLDEN(Len(a))), SHL6(a)), SHR2(a)))

\* std::hash<int>: the value converted to size_t (two's complement, the
\* sign extended over all limbs).
std_hash(x, w) ==
    [i \in 1..w |->
        IF x >= 0 THEN (IF i = 1 THEN x % Base ELSE IF i = 2 THEN x \div Base ELSE 0)
        ELSE Base - 1 - (IF i = 1 THEN (-x - 1) % Base
                         ELSE IF i = 2 THEN (-x - 1) \div Base ELSE 0)]

\* tuple_hasher::hash_tuple<TTuple, I, T>: std::hash<T>{}(std::get<I>(v));
\* I counts from 0.
hash_tuple1(v, I, w) == std_hash(v[I + 1], w)

\* tuple_hasher::hash_tuple<TTuple, I, ...>: the overload for one remaining
\* component, or hash_combine of that overload at I with hash_tuple at I+1.
RECURSIVE hash_tuple(_, _, _)
hash_tuple(v, I, w) ==
    IF Len(v) - I = 1
    THEN hash_tuple1(v, I, w)
    ELSE hash_combine(hash_tuple1(v, I, w), hash_tuple(v, I + 1, w))

\* tuple_hasher::operator(): hash_tuple<std::tuple<Args...>, 0, Args...>(value)
tuple_hasher(value, w) == hash_tuple(value, 0, w)

\* The keys of at most MaxArity components.
Tuples == UNION {[1..n -> Components] : n \in 1..MaxArity}

\* A key tuple is given, nothing is hashed yet.
InitHash ==
    /\ InitStore /\ threadsafe = FALSE /\ NoThreads /\ NoWeak
    /\ hkey \in Tuples
    /\ hval = <<>>

\* The map hashes the key, on a platform whose size_t has w limbs.
Hash(w) ==
    /\ hval = <<>>
    /\ hval' = tuple_hasher(hkey, w)
    /\ UNCHANGED <<kind, alive, map, creator_calls, deleter_calls, guards, pending, crashed,
                   gets, releases, stray, cleared, last, nops, tvars, hkey, wvars>>

NextHash == \E w \in Widths : Hash(w)

SpecHash == InitHash /\ [][NextHash]_vars

\* combine(a, b) = a XOR (b + 0x9e3779b9 + (a << 6) + (a >> 2)), the sum
\* taken modulo the word size.
Combine(a, b) == XOR(a, ADD(b, ADD(GOLDEN(Len(a)), ADD(SHL6(a), SHR2(a)))))

\* combine(hs[i], combine(hs[i+1], ... hs[n])), hs[n] alone for i = n.
RECURSIVE RightNested(_, _)
RightNested(hs, i) ==
    IF i = Len(hs) THEN hs[i] ELSE Combine(hs[i], RightNested(hs, i + 1))

\* The hashes of the components of a key, in order.
ComponentHashes(key, w) == [i \in 1..Len(key) |-> std_hash(key[i], w)]

\* C29: the hash of a key (c1..cn) is the right-nested combination
\* combine(h(c1), hash(c2..cn)) of the hashes of its components, with
\* combine(a, b) = a XOR (b + 0x9e3779b9 + (a << 6) + (a >> 2)) modulo the
\* word size; for n = 1 it is h(c1); hashing the key again gives the same
\* word.  The hash of (0, 0) is 0x9e3779b9, that of (-1, -1) on 32 bits
\* 0x21c88688 and that of (1, 2, -1) on 64 bits 0x13c6ef432.
C29_TupleHash ==
    hval # <<>> =>
        LET w == Len(hval)
            hs == ComponentHashes(hkey, w)
        IN /\ w \in Widths
           /\ hval = RightNested(hs, 1)
           /\ Len(hkey) = 1 => hval = std_hash(hkey[1], w)
           /\ Len(hkey) >= 2 => hval = Combine(hs[1], tuple_hasher(SubSeq(hkey, 2, Len(hkey)), w))
           /\ hval = tuple_hasher(hkey, w)
           /\ hkey = <<0, 0>> => hval = GOLDEN(w)
           /\ (hkey = <<-1, -1>> /\ w = 2) => hval = <<34440, 8648>>
           /\ (hkey = <<1, 2, -1>> /\ w = 4) => hval = <<62514, 15470, 1, 0>>

\* C29: the key (1, 2, -1) has been hashed on 64 bits, the sum wrapped
\* around, and combine is not commutative on the hashes of 1 and 2.
C29_Witness ==
    /\ hkey = <<1, 2, -1>> /\ Len(hval) = 4
    /\ hval = <<62514, 15470, 1, 0>>
    /\ Combine(std_hash(1, 4), std_hash(2, 4)) # Combine(std_hash(2, 4), std_hash(1, 4))
    /\ tuple_hasher(<<2, 1, -1>>, 4) # hval

----------------------------------------------------------------------------
\* flyweight_autorelease of the first iterations: the map holds weak_ptrs,
\* get hands out shared_ptrs, and the destructor of the object erases the
\* object's key from the map.

\* autorelease objects made in one behaviour, and shared_ptrs to one object.
MaxInstances == 3
MaxHandles == 2

\* The store as a value.
WeakStore == [map |-> wmap, inst |-> winst, made |-> wmade]

\* weak_ptr::expired of the weak_ptr stored for key k.
expired(s, k) == s.map[k] \notin DOMAIN s.inst

\* flyweight_autorelease::get: map.emplace(key, weak_ptr{}); an entry that
\* was there and is not expired is locked, otherwise a new autorelease
\* object is made and the entry refers to it.
weak_get(s, k) ==
    IF k \in DOMAIN s.map /\ ~expired(s, k)
    THEN [s |-> [s EXCEPT !.inst[s.map[k]].handles = @ + 1], ret |-> s.map[k]]
    ELSE LET i == s.made + 1
         IN [s |-> [map |-> [x \in DOMAIN s.map \cup {k} |-> IF x = k THEN i ELSE s.map[x]],
                    inst |-> [x \in DOMAIN s.inst \cup {i} |->
                                 IF x = i THEN [key |-> k, handles |-> 1] ELSE s.inst[x]],
                    made |-> i],
             ret |-> i]

\* flyweight_autorelease::release_tuple: map.erase(key)
release_tuple(s, k) == [s EXCEPT !.map = erase(@, k)]

\* A shared_ptr to object i is destroyed.  With the last one the object is
\* destroyed: ~autorelease calls release_tuple(key).
drop(s, i) ==
    IF s.inst[i].handles > 1
    THEN [s EXCEPT !.inst[i].handles = @ - 1]
    ELSE LET s2 == release_tuple(s, s.inst[i].key)
         IN [s2 EXCEPT !.inst = [x \in DOMAIN s.inst \ {i} |-> s.inst[x]]]

WeakCommit(s) == wmap' = s.map /\ winst' = s.inst /\ wmade' = s.made

\* What no step of the weak store changes.
WeakFrame ==
    UNCHANGED <<kind, alive, map, creator_calls, deleter_calls, guards, pending, crashed,
                gets, releases, stray, cleared, last, nops, tvars, hvars>>

WeakGet(k) ==
    /\ wmade < MaxInstances \/ (k \in DOMAIN wmap /\ ~expired(WeakStore, k))
    /\ (k \in DOMAIN wmap /\ ~expired(WeakStore, k)) => winst[wmap[k]].handles < MaxHandles
    /\ LET r == weak_get(WeakStore, k)
       IN /\ WeakCommit(r.s)
          /\ wlast' = [op |-> "get", key |-> k, inst |-> r.ret, erased_other |-> FALSE]
    /\ WeakFrame

WeakRelease(k) ==
    /\ WeakCommit(release_tuple(WeakStore, k))
    /\ wlast' = [op |-> "release", key |-> k, inst |-> 0, erased_other |-> FALSE]
    /\ WeakFrame

\* The caller destroys one of its shared_ptrs to object i.
WeakDrop(i) ==
    /\ i \in DOMAIN winst
    /\ WeakCommit(drop(WeakStore, i))
    /\ wlast' = [op |-> "drop", key |-> winst[i].key, inst |-> i,
                 erased_other |-> /\ winst[i].handles = 1
                                  /\ winst[i].key \in DOMAIN wmap
                                  /\ wmap[winst[i].key] # i]
    /\ WeakFrame

InitWeak == InitStore /\ threadsafe = FALSE /\ NoThreads /\ NoHash /\ NoWeak

NextWeak ==
    \/ \E k \in Keys : WeakGet(k)
    \/ \E k \in Keys : WeakRelease(k)
    \/ \E i \in 1..MaxInstances : WeakDrop(i)

SpecWeak == InitWeak /\ [][NextWeak]_vars

\* The live objects made for key k.
LiveInstances(k) == {i \in DOMAIN winst : winst[i].key = k}

\* C31: in flyweight_autorelease at most one object per key is alive at any
\* time, and the destruction of an object erases no map entry that refers
\* to another object.
C31_OneInstanceOwnEntry ==
    /\ \A k \in Keys : Cardinality(LiveInstances(k)) <= 1
    /\ ~wlast.erased_other

\* C32: on a refcounted store, whenever no call is in progress, every slot
\* in the map has a count of at least 1: a key is loaded if and only if
\* reference_count reports at least 1 for it.
C32_LoadedIffCounted ==
    kind = "refcounted" =>
        /\ \A k \in DOMAIN map : map[k].refcount >= 1
        /\ \A k \in Keys : Loaded(k) <=> RefCount(k) >= 1

\* C32: a release of a took its count from 2 to 1 and a stays loaded, while
\* b, whose only reference was released, is gone.
C32_Witness ==
    /\ kind = "refcounted"
    /\ last.op = "release" /\ last.key = "a" /\ last.was_count = 2
    /\ Loaded("a") /\ RefCount("a") = 1
    /\ gets["b"] = 1 /\ releases["b"] = 1 /\ ~Loaded("b") /\ RefCount("b") = 0

\* The slot of key k is not the same before and after this step.
SlotChanged(k) ==
    \/ (k \in DOMAIN map) # (k \in DOMAIN map')
    \/ k \in DOMAIN map /\ k \in DOMAIN map' /\ map'[k] # map[k]

\* The creator and deleter calls made in this step concern key k only.
CallbacksOnlyFor(k) ==
    /\ \/ creator_calls' = creator_calls
       \/ creator_calls' = Append(creator_calls, k)
    /\ \A i \in DOMAIN deleter_calls :
          deleter_calls'[i] # deleter_calls[i] => creator_calls[i] = k

\* A call of get, release, peek, is_loaded or reference_count is made in
\* this step, directly or by a guard.
KeyedStep ==
    /\ last'.op \in {"get", "release", "peek", "is_loaded", "reference_count"}
    /\ nops' = nops + 1 \/ ReadStep

\* C33: a call of get, release, peek, is_loaded or reference_count for key
\* k, made directly or by a guard, leaves the slot of every other key as it
\* is (same value object, same value, same count) and invokes creator and
\* deleter for k only; a step that changes the slots of two keys is a clear
\* or the destruction of the store.
C33_OtherKeysUntouched ==
    [][/\ \A k \in Keys : (KeyedStep /\ last'.key = k) =>
              /\ OthersUnchanged(k)
              /\ CallbacksOnlyFor(k)
       /\ (\E j, k \in Keys : j # k /\ SlotChanged(j) /\ SlotChanged(k)) =>
              last'.op \in {"clear", "destroy"}]_vars

----------------------------------------------------------------------------
\* A refcounted store whose values are acquired and given back by guards
\* only: get_autorelease, copies of guards and their destructors, and the
\* read-only queries.
InitGuards == Init /\ kind = "refcounted"

NextGuards ==
    \/ \E k \in Keys : GetAutorelease(k)
    \/ \E g \in GuardIds : GuardCopy(g)
    \/ \E g \in GuardIds : GuardMove(g)
    \/ \E g \in GuardIds : GuardDestroy(g)
    \/ \E k \in Keys : ReferenceCount(k)
    \/ \E k \in Keys : RcIsLoaded(k)

SpecGuards == InitGuards /\ [][NextGuards]_vars

\* The deleter is given a value made for key k in this step.
DeleterRunsFor(k) ==
    \E i \in DOMAIN deleter_calls :
        creator_calls[i] = k /\ deleter_calls'[i] = deleter_calls[i] + 1

\* C34: on a refcounted store used through guards only, at every point the
\* count of each key is the number of live guards that hold it and the key
\* is loaded exactly when there is such a guard; the deleter is given a
\* value of key k exactly in the steps that destroy the only live guard of
\* k, and no value is given to it twice.
C34_CountIsLiveGuards ==
    /\ [](/\ CountIsGuards
          /\ \A k \in Keys : Loaded(k) <=> GuardsFor(k) # {}
          /\ \A i \in DOMAIN deleter_calls : deleter_calls[i] <= 1)
    /\ [][\A k \in Keys :
            DeleterRunsFor(k) <=>
                /\ last'.via = "guard_dtor" /\ last'.key = k /\ nops' = nops + 1
                /\ Cardinality(GuardsFor(k)) = 1]_vars

\* C34: a had two guards; the first destructor left it loaded with count 1,
\* the second one has just removed it and run the deleter.
C34_Witness ==
    /\ kind = "refcounted"
    /\ last.op = "release" /\ last.via = "guard_dtor" /\ last.key = "a"
    /\ last.was_count = 1 /\ last.ret = TRUE
    /\ gets["a"] = 2 /\ releases["a"] = 2
    /\ guards = <<>> /\ ~Loaded("a") /\ RefCount("a") = 0
    /\ creator_calls = <<"a">> /\ deleter_calls = <<1>>

\* Thread t is in get(k), which is about to return a value.
GetReturning(t, k) ==
    /\ thr[t].op = "get" /\ thr[t].key = k /\ thr[t].pc = "return" /\ ~thr[t].threw

\* C35: on a refcounted store with std::mutex, when the only calls made are
\* two get(k) of two threads on an unloaded key whose creator returns, the
\* creator has run once however the calls interleave: while the first call
\* is about to return and the second waits for the mutex the count is 1;
\* when the second is about to return it returns the slot the first one
\* returned and the count is 2, and so it stays when both have returned.
C35_TwoGetsOneCreation ==
    (threadsafe /\ kind = "refcounted" /\ nops = 2) =>
        \A t, u \in Threads : \A k \in Keys :
            /\ (GetReturning(t, k) /\ thr[u].pc = "lock" /\ thr[u].op = "get" /\ thr[u].key = k) =>
                    /\ creator_calls = <<k>>
                    /\ thr[t].ret = map[k].id
                    /\ map[k].refcount = 1
            /\ (GetReturning(t, k) /\ thr[u].pc = "idle" /\ shadow.creator_calls = <<k>>
                    /\ k \in DOMAIN shadow.map) =>
                    /\ creator_calls = <<k>>
                    /\ ~mismatch
                    /\ thr[t].ret = shadow.map[k].id /\ thr[t].ret = map[k].id
                    /\ map[k].refcount = 2 /\ DOMAIN map = {k}
            /\ (thr[t].pc = "idle" /\ thr[u].pc = "idle" /\ k \in DOMAIN shadow.map
                    /\ shadow.map[k].refcount = 2) =>
                    /\ creator_calls = <<k>> /\ ~mismatch /\ Store = shadow

\* C35: both threads called get(a); the first call has returned slot 1, the
\* second is about to return the same slot and the count of a is 2.
C35_Witness ==
    /\ threadsafe /\ kind = "refcounted" /\ nops = 2
    /\ thr["t1"].pc = "idle" /\ GetReturning("t2", "a")
    /\ shadow.creator_calls = <<"a">> /\ shadow.map["a"].refcount = 1
    /\ creator_calls = <<"a">> /\ thr["t2"].ret = 1 /\ map["a"].refcount = 2

\* This step is the destructor of guard g.
DestructorOf(g) ==
    /\ g \in DOMAIN guards /\ DOMAIN guards' = DOMAIN guards \ {g}
    /\ last'.via = "guard_dtor" /\ nops' = nops + 1

\* Guard g holds a value of a slot that is gone while its key is loaded
\* again with another slot.
Outlived(g) ==
    /\ g \in DOMAIN guards /\ guards[g].key \in DOMAIN map
    /\ map[guards[g].key].id # guards[g].value

\* C36: on a refcounted store the destructor of a guard whose slot was
\* removed and whose key was created again releases by key: it lowers the
\* count of the new slot by one, and at count 1 it removes the new slot and
\* gives its value to the deleter, whoever holds it.
C36_ReleaseByKey ==
    [][\A g \in GuardIds :
        (kind = "refcounted" /\ Outlived(g) /\ DestructorOf(g)) =>
            LET k == guards[g].key
            IN IF map[k].refcount > 1
               THEN /\ map' = [map EXCEPT ![k].refcount = @ - 1]
                    /\ deleter_calls' = deleter_calls
               ELSE /\ map' = [x \in DOMAIN map \ {k} |-> map[x]]
                    /\ deleter_calls' = [deleter_calls EXCEPT ![map[k].id] = @ + 1]]_vars

\* C36: a guard took a, release(a) removed its slot, get(a) made a second
\* slot for a direct holder, and the destructor of the guard has just removed
\* the second slot although its holder released nothing.
C36_Witness ==
    /\ kind = "refcounted"
    /\ creator_calls = <<"a", "a">> /\ deleter_calls = <<1, 1>>
    /\ last.op = "release" /\ last.via = "guard_dtor" /\ last.key = "a"
    /\ last.was_count = 1 /\ last.ret = TRUE
    /\ gets["a"] = 2 /\ releases["a"] = 2 /\ nops = 4
    /\ guards = <<>> /\ ~Loaded("a")

\* The first half of a copy assignment a = b of two guards of one key k on a
\* refcounted store is taken in this step.
SameKeyRelease(a, b, k) ==
    /\ kind = "refcounted" /\ AssignReleaseStep /\ pending' = <<a, b>>
    /\ guards[a].key = k /\ guards[b].key = k

\* The second half of that assignment is taken in this step.
SameKeyGet(a, b, k) ==
    /\ kind = "refcounted" /\ pending = <<a, b>> /\ pending' = <<>>
    /\ guards[a].key = k /\ guards[b].key = k

\* C39 as stated: a copy assignment between two distinct live guards of one
\* key k invokes neither the creator nor the deleter and leaves
\* reference_count(k) as it was; a guard assigned from itself at count 1 has
\* its slot removed by the release and made again by the get, which ends
\* with count 1 on a new slot.
C39_AsStated ==
    [][\A a, b \in GuardIds : \A k \in Keys :
        /\ (SameKeyRelease(a, b, k) /\ a # b) =>
              /\ creator_calls' = creator_calls /\ deleter_calls' = deleter_calls
        /\ (SameKeyGet(a, b, k) /\ a # b /\ ~last'.threw) =>
              /\ creator_calls' = creator_calls /\ deleter_calls' = deleter_calls
              /\ RefCount(k)' = last.was_count
        /\ (SameKeyRelease(a, b, k) /\ a = b /\ RefCount(k) = 1) =>
              /\ ~Loaded(k)'
              /\ deleter_calls' = [deleter_calls EXCEPT ![map[k].id] = @ + 1]
        /\ (SameKeyGet(a, b, k) /\ a = b /\ last.was_count = 1 /\ ~last'.threw) =>
              /\ creator_calls' = Append(creator_calls, k)
              /\ RefCount(k)' = 1 /\ map'[k].id = Len(creator_calls')]_vars

\* C39: a copy assignment between two distinct live guards of one key k
\* whose count is at least 2 invokes neither the creator nor the deleter:
\* the release lowers the count by one and the get raises it again.  When
\* the count is below 2 (a direct release or clear took the references of
\* the guards away) the release removes the slot if there is one and the
\* get runs the creator and ends with count 1.  A guard assigned from itself
\* at count 1 has its slot removed by the release (the deleter runs) and,
\* when the creator returns, made again by the get, which ends with count 1
\* on a new slot.
C39_SameKeyAssign ==
    [][\A a, b \in GuardIds : \A k \in Keys :
        /\ (SameKeyRelease(a, b, k) /\ a # b /\ RefCount(k) >= 2) =>
              /\ creator_calls' = creator_calls /\ deleter_calls' = deleter_calls
              /\ RefCount(k)' = RefCount(k) - 1
        /\ (SameKeyGet(a, b, k) /\ a # b /\ last.was_count >= 2) =>
              /\ creator_calls' = creator_calls /\ deleter_calls' = deleter_calls
              /\ ~last'.threw
              /\ RefCount(k)' = last.was_count
        /\ (SameKeyRelease(a, b, k) /\ RefCount(k) = 1) =>
              /\ ~Loaded(k)'
              /\ deleter_calls' = [deleter_calls EXCEPT ![map[k].id] = @ + 1]
        /\ (SameKeyRelease(a, b, k) /\ RefCount(k) = 0) =>
              /\ ~Loaded(k)' /\ deleter_calls' = deleter_calls
        /\ (SameKeyGet(a, b, k) /\ last.was_count < 2 /\ ~last'.threw) =>
              /\ creator_calls' = Append(creator_calls, k)
              /\ deleter_calls' = Append(deleter_calls, 0)
              /\ RefCount(k)' = 1 /\ map'[k].id = Len(creator_calls')]_vars

\* C39: two guards hold a with count 2 and one has just been assigned from
\* the other: one value made, none deleted, count 2.
C39_Witness ==
    /\ kind = "refcounted" /\ pending = <<>>
    /\ last.op = "get" /\ last.via = "guard_assign" /\ last.key = "a" /\ last.was_count = 1
    /\ DOMAIN guards = {1, 2} /\ guards[1].key = "a" /\ guards[2].key = "a"
    /\ gets["a"] = 3 /\ releases["a"] = 1 /\ nops = 4
    /\ creator_calls = <<"a">> /\ deleter_calls = <<0>>
    /\ RefCount("a") = 2

\* Thread t is in a copy assignment of guards, between the release of the
\* old key, which has returned, and the get of the new key, not yet begun.
Between(t) == thr[t].assign # <<>> /\ thr[t].op = "get" /\ thr[t].pc = "lock"

CallbackCall(t) ==
    /\ thr[t].pc \in {"in_deleter", "create"}
    /\ thr'[t].pc = "self_deadlock" \/ thr'[t].nested # thr[t].nested

\* Thread t waits in a callback for the mutex it owns.
Stuck(t) == thr[t].pc = "self_deadlock"

\* While a thread is stuck in its callback it owns the mutex, no other
\* thread is inside an operation or can pass its Lock statement, and no
\* thread can take a step of a call.
StuckBlocksAll ==
    \A t \in Threads : Stuck(t) =>
        /\ threadsafe /\ mutex = t
        /\ \A u \in Threads :
            /\ ~ENABLED Acquire(u) /\ ~ENABLED Step(u)
            /\ u # t => ~Inside(u)

\* A stuck thread stays stuck, with the mutex and the store as they are.
StuckForever ==
    \A t \in Threads : Stuck(t) => (thr'[t] = thr[t] /\ mutex' = mutex /\ Store' = Store)

\* C38 as stated: with std::mutex a creator or deleter callback that calls
\* an operation of its store never returns: in that step the thread starts
\* to wait for the mutex it owns, and from then on it waits forever and no
\* operation of another thread gets past its Lock statement.
C38_AsStated ==
    /\ []StuckBlocksAll
    /\ [][StuckForever]_vars
    /\ [][\A t \in Threads : (threadsafe /\ CallbackCall(t)) => Stuck(t)']_vars

\* C38: with std::mutex an operation called from inside a creator or
\* deleter callback of the same store never runs: its Lock statement locks a
\* mutex the thread owns, which is undefined.  Either the thread waits for
\* itself, and then the callback never returns, the thread owns the mutex
\* forever and no operation of another thread gets past its Lock statement;
\* or the lock attempt fails with an error in the callback.  Neither way the
\* store or the mutex changes in the step, and no nested call reads the map.
C38_ReentryNeverRuns ==
    /\ [](StuckBlocksAll /\ (threadsafe => obs = NoObs))
    /\ [][StuckForever]_vars
    /\ [][\A t \in Threads :
            (threadsafe /\ CallbackCall(t)) =>
                /\ Stuck(t)' \/ thr'[t] = [thr[t] EXCEPT !.nested = "error"]
                /\ mutex' = mutex /\ mutex = t /\ Store' = Store]_vars

\* C38: the deleter of t1's release(a) has called the store and waits for
\* the mutex t1 owns; get(a) of t2 waits at its Lock statement.
C38_Witness ==
    /\ threadsafe /\ kind = "refcounted"
    /\ Stuck("t1") /\ thr["t1"].op = "release" /\ thr["t1"].key = "a" /\ mutex = "t1"
    /\ thr["t2"].pc = "lock" /\ thr["t2"].op = "get"
    /\ ~ENABLED Acquire("t2")
    /\ Loaded("a") /\ map["a"].refcount = 0

====
